---------------------------- MODULE Spec2Model ----------------------------
(***************************************************************************)
(* Model of the SimpleJSON library (include/simpleJSON/simpleJSON.hpp):    *)
(* the JSONObject value model, its serializers and the recursive-descent   *)
(* parser over a std::istream.                                             *)
(*                                                                         *)
(* Platform assumptions (x86-64 Linux, libstdc++/glibc): char is signed,   *)
(* long long is 64 bits, long double is the x87 80-bit format (64-bit      *)
(* mantissa, so every long long widens exactly).                           *)
(***************************************************************************)
EXTENDS Integers, Sequences, FiniteSets, TLC

(***************************************************************************)
(* Characters are bytes 0..255; a text or a std::string is a sequence of   *)
(* bytes.  Code maps a printable token to its byte so that texts can be    *)
(* written readably: Txt(<<"[", "1", "]">>).                               *)
(***************************************************************************)
Code ==
    ("<00>" :> 0) @@ ("<01>" :> 1) @@ ("\t" :> 9) @@ ("\n" :> 10) @@
    ("<0B>" :> 11) @@ ("<0C>" :> 12) @@ ("\r" :> 13) @@ ("<1F>" :> 31) @@
    (" " :> 32) @@ ("!" :> 33) @@ ("\"" :> 34) @@ ("+" :> 43) @@
    ("," :> 44) @@ ("-" :> 45) @@ ("." :> 46) @@ ("/" :> 47) @@
    ("0" :> 48) @@ ("1" :> 49) @@ ("2" :> 50) @@ ("3" :> 51) @@
    ("4" :> 52) @@ ("5" :> 53) @@ ("6" :> 54) @@ ("7" :> 55) @@
    ("8" :> 56) @@ ("9" :> 57) @@ (":" :> 58) @@
    ("A" :> 65) @@ ("B" :> 66) @@ ("E" :> 69) @@ ("F" :> 70) @@
    ("G" :> 71) @@ ("Z" :> 90) @@ ("[" :> 91) @@ ("\\" :> 92) @@
    ("]" :> 93) @@
    ("a" :> 97) @@ ("b" :> 98) @@ ("c" :> 99) @@ ("d" :> 100) @@
    ("e" :> 101) @@ ("f" :> 102) @@ ("g" :> 103) @@ ("i" :> 105) @@
    ("k" :> 107) @@ ("l" :> 108) @@ ("n" :> 110) @@ ("r" :> 114) @@
    ("s" :> 115) @@ ("t" :> 116) @@ ("u" :> 117) @@ ("x" :> 120) @@
    ("{" :> 123) @@ ("}" :> 125) @@ ("<80>" :> 128) @@ ("<FF>" :> 255)

Txt(s) == [i \in 1..Len(s) |-> Code[s[i]]]

\* the value a byte has once stored in a (signed) char and promoted to int
SignedChar(b) == IF b >= 128 THEN b - 256 ELSE b

\* std::isdigit / std::isxdigit in the "C" locale
IsDigit(c) == c >= 48 /\ c <= 57

IsXDigit(c) == IsDigit(c) \/ (c >= 65 /\ c <= 70) \/ (c >= 97 /\ c <= 102)

DigitChar(d) == 48 + d

DigitVal(c) == c - 48

\* std::string operator< : lexicographic on unsigned bytes
SeqLess(a, b) ==
    LET n == IF Len(a) < Len(b) THEN Len(a) ELSE Len(b)
    IN IF \A i \in 1..n : a[i] = b[i] THEN Len(a) < Len(b)
       ELSE LET d == CHOOSE i \in 1..n : a[i] # b[i] /\ \A k \in 1..(i - 1) : a[k] = b[k]
            IN a[d] < b[d]

\* a local variable: v is computed once and named by the parameter of F
With(v, F(_)) == F(v)

\* the same, with v computed before F is entered
Strict(v, F(_)) == IF v = v THEN F(v) ELSE F(v)

Zeros(n) == [i \in 1..n |-> 0]

StripLeadingZeros(d) ==
    IF \A i \in 1..Len(d) : d[i] = 0 THEN <<>>
    ELSE SubSeq(d, CHOOSE i \in 1..Len(d) : d[i] # 0 /\ \A k \in 1..(i - 1) : d[k] = 0,
                Len(d))

\* d without the zeros at its end
StripTrailingZeros(d) ==
    IF \A i \in 1..Len(d) : d[i] = 0 THEN <<>>
    ELSE SubSeq(d, 1, CHOOSE i \in 1..Len(d) :
                          d[i] # 0 /\ \A k \in (i + 1)..Len(d) : d[k] = 0)

RECURSIVE DigitsToNat(_)
DigitsToNat(d) ==
    IF d = <<>> THEN 0 ELSE 10 * DigitsToNat(SubSeq(d, 1, Len(d) - 1)) + d[Len(d)]

(***************************************************************************)
(* Natural numbers of any size, for the 64-bit significand of a long       *)
(* double and the powers of two and ten it is scaled by: a sequence of     *)
(* limbs in base 2^15, most significant first, without a leading zero      *)
(* limb; the empty sequence is 0.  The loops split their range in halves,  *)
(* so that the depth of the evaluation stays small.                        *)
(***************************************************************************)
LimbBits == 15

LimbBase == 2^LimbBits

\* a without one leading zero limb
Trim1(a) == IF a # <<>> /\ a[1] = 0 THEN Tail(a) ELSE a

\* the limbs lo..hi of a times m, plus c: the low limbs and the carry (m <= LimbBase)
RECURSIVE MulRange(_, _, _, _, _)
MulRange(a, lo, hi, m, c) ==
    IF lo = hi
    THEN [limbs |-> <<(a[lo] * m + c) % LimbBase>>, carry |-> (a[lo] * m + c) \div LimbBase]
    ELSE Strict(MulRange(a, (lo + hi) \div 2 + 1, hi, m, c), LAMBDA right :
         Strict(MulRange(a, lo, (lo + hi) \div 2, m, right.carry), LAMBDA left :
             [limbs |-> left.limbs \o right.limbs, carry |-> left.carry]))

\* a * m + c, for m <= LimbBase and c < LimbBase
MulSmall(a, m, c) ==
    IF a = <<>> THEN (IF c = 0 THEN <<>> ELSE <<c>>)
    ELSE With(MulRange(a, 1, Len(a), m, c), LAMBDA r :
             IF r.carry = 0 THEN r.limbs ELSE <<r.carry>> \o r.limbs)

\* a * m^k
RECURSIVE MulPow(_, _, _)
MulPow(a, m, k) ==
    IF k = 0 THEN a
    ELSE IF k = 1 THEN MulSmall(a, m, 0)
    ELSE Strict(MulPow(a, m, k \div 2), LAMBDA b : MulPow(b, m, k - k \div 2))

\* the limbs lo..hi of a, with the remainder r carried in, divided by m
RECURSIVE DivRange(_, _, _, _, _)
DivRange(a, lo, hi, m, r) ==
    IF lo = hi
    THEN [limbs |-> <<(r * LimbBase + a[lo]) \div m>>, rem |-> (r * LimbBase + a[lo]) % m]
    ELSE Strict(DivRange(a, lo, (lo + hi) \div 2, m, r), LAMBDA left :
         Strict(DivRange(a, (lo + hi) \div 2 + 1, hi, m, left.rem), LAMBDA right :
             [limbs |-> left.limbs \o right.limbs, rem |-> right.rem]))

\* quotient and remainder of a by m, for m <= LimbBase
DivSmall(a, m) ==
    IF a = <<>> THEN [q |-> <<>>, rem |-> 0]
    ELSE With(DivRange(a, 1, Len(a), m, 0), LAMBDA r : [q |-> Trim1(r.limbs), rem |-> r.rem])

\* st.n divided k times by m, rounded down; st.cut tells whether anything
\* other than zero was cut off
RECURSIVE DivPow(_, _, _)
DivPow(st, m, k) ==
    IF k = 0 THEN st
    ELSE IF k = 1
    THEN With(DivSmall(st.n, m), LAMBDA d : [n |-> d.q, cut |-> st.cut \/ d.rem # 0])
    ELSE Strict(DivPow(st, m, k \div 2), LAMBDA mid : DivPow(mid, m, k - k \div 2))

\* the number of binary digits of a
BitLen(a) ==
    IF a = <<>> THEN 0
    ELSE LimbBits * (Len(a) - 1) + (CHOOSE b \in 1..LimbBits : a[1] < 2^b /\ a[1] >= 2^(b - 1))

\* a * 2^t
ShiftLeft(a, t) == MulSmall(a \o Zeros(t \div LimbBits), 2^(t % LimbBits), 0)

\* a + 1
AddOne(a) == MulSmall(a, 1, 1)

IsOdd(a) == a # <<>> /\ a[Len(a)] % 2 = 1

\* floor(a / 2^s) for s > 0, with what was cut off: half is the highest binary
\* digit cut, cut tells whether a lower one was set (or cut0, for what had been
\* cut off a before)
ShiftRight(a, s, cut0) ==
    LET k == s \div LimbBits
        b == s % LimbBits
        n == Len(a)
        keep == IF k >= n THEN <<>> ELSE SubSeq(a, 1, n - k)
        low == IF k >= n THEN a ELSE SubSeq(a, n - k + 1, n)
        lowSet(from) == \E i \in from..Len(low) : low[i] # 0
    IN IF b = 0
       THEN IF k > n THEN [n |-> <<>>, half |-> FALSE, cut |-> cut0 \/ lowSet(1)]
            ELSE [n |-> keep, half |-> low[1] >= 2^(LimbBits - 1),
                  cut |-> cut0 \/ low[1] % 2^(LimbBits - 1) # 0 \/ lowSet(2)]
       ELSE With(DivSmall(keep, 2^b), LAMBDA d :
                [n |-> d.q, half |-> d.rem >= 2^(b - 1),
                 cut |-> cut0 \/ d.rem % 2^(b - 1) # 0 \/ lowSet(1)])

\* a rounded to the nearest multiple of 2^s, ties to even, in units of 2^s
RoundShift(a, s, cut0) ==
    With(ShiftRight(a, s, cut0), LAMBDA r :
        IF r.half /\ (r.cut \/ IsOdd(r.n)) THEN AddOne(r.n) ELSE r.n)

\* the number with the decimal digits d[lo..hi] appended to the number acc
RECURSIVE DecRange(_, _, _, _)
DecRange(d, lo, hi, acc) ==
    IF lo > hi THEN acc
    ELSE IF hi - lo < 4
    THEN MulSmall(acc, 10^(hi - lo + 1), DigitsToNat(SubSeq(d, lo, hi)))
    ELSE Strict(DecRange(d, lo, (lo + hi) \div 2, acc), LAMBDA left :
             DecRange(d, (lo + hi) \div 2 + 1, hi, left))

\* the number with the decimal digits d
DecToLimbs(d) == DecRange(d, 1, Len(d), <<>>)

\* k times: the last four decimal digits of st.n are moved to the front of st.out
RECURSIVE DecLoop(_, _)
DecLoop(st, k) ==
    IF k = 0 \/ st.n = <<>> THEN st
    ELSE IF k = 1
    THEN With(DivSmall(st.n, 10000), LAMBDA d :
             [n |-> d.q,
              out |-> <<d.rem \div 1000, (d.rem \div 100) % 10, (d.rem \div 10) % 10, d.rem % 10>>
                      \o st.out])
    ELSE Strict(DecLoop(st, k \div 2), LAMBDA mid : DecLoop(mid, k - k \div 2))

\* the decimal digits of a (none for 0)
LimbsToDec(a) ==
    StripLeadingZeros(DecLoop([n |-> a, out |-> <<>>], (LimbBits * Len(a)) \div 13 + 1).out)

(***************************************************************************)
(* Numbers.  JSONInteger (long long) is a sign and the decimal digits of   *)
(* the magnitude, so that the full 64-bit range is exact.  JSONFloating    *)
(* (long double) is a sign, the significand man (an integer below 2^64,    *)
(* as its decimal digits) and the binary exponent exp2, the value being    *)
(* man * 2^exp2, or it is an infinity.                                     *)
(***************************************************************************)
RECURSIVE NatDigits(_)
NatDigits(n) == IF n < 10 THEN <<n>> ELSE NatDigits(n \div 10) \o <<n % 10>>

\* the long long with the (small) value n
IntOf(n) ==
    IF n < 0 THEN [neg |-> TRUE, digits |-> NatDigits(0 - n)]
    ELSE [neg |-> FALSE, digits |-> NatDigits(n)]

LLONG_MAX == [neg |-> FALSE, digits |-> <<9,2,2,3,3,7,2,0,3,6,8,5,4,7,7,5,8,0,7>>]

LLONG_MIN == [neg |-> TRUE, digits |-> <<9,2,2,3,3,7,2,0,3,6,8,5,4,7,7,5,8,0,8>>]

\* compare the magnitudes of two canonical digit sequences; -1, 0 or 1
MagCmp(a, b) ==
    IF Len(a) < Len(b) THEN -1
    ELSE IF Len(a) > Len(b) THEN 1
    ELSE IF a = b THEN 0
    ELSE IF SeqLess(a, b) THEN -1 ELSE 1

\* built-in < on long long
IntLess(a, b) ==
    IF a.neg /\ ~b.neg THEN TRUE
    ELSE IF ~a.neg /\ b.neg THEN FALSE
    ELSE IF a.neg THEN MagCmp(a.digits, b.digits) = 1
    ELSE MagCmp(a.digits, b.digits) = -1

\* long double is the x87 extended format: a significand of 64 binary digits
LDBL_MANT_DIG == 64

\* the binary exponent of the last digit of LDBL_MAX = (2^64 - 1) * 2^16320
LDBL_MAX_EXP2 == 16320

\* the binary exponent of the smallest denormal, 2^-16445
LDBL_MIN_EXP2 == 0 - 16445

\* LDBL_MAX is 1.18973149535723176502e+4932
LDBL_MAX_10_EXP == 4932

\* a decimal below 10^LDBL_TRUE_MIN_10_EXP is below half the smallest denormal, 1.8e-4951
LDBL_TRUE_MIN_10_EXP == 0 - 4951

FloatZero(neg) == [cls |-> "fin", neg |-> neg, man |-> <<>>, exp2 |-> 0]

Infinity(neg) == [cls |-> "inf", neg |-> neg, man |-> <<>>, exp2 |-> 0]

\* the long double nearest to (n + x) * 2^e, ties to even, where 0 <= x < 1
\* and cut tells whether x # 0 (n then has more than LDBL_MANT_DIG digits):
\* the significand is cut to LDBL_MANT_DIG digits, to fewer for a denormal;
\* beyond LDBL_MAX the result is an infinity
RoundLD(neg, n, cut, e) ==
    LET len == BitLen(n)
        s == IF len - LDBL_MANT_DIG > LDBL_MIN_EXP2 - e
             THEN len - LDBL_MANT_DIG ELSE LDBL_MIN_EXP2 - e
        t == IF LDBL_MANT_DIG - len < e - LDBL_MIN_EXP2
             THEN LDBL_MANT_DIG - len ELSE e - LDBL_MIN_EXP2
    IN IF n = <<>> /\ ~cut THEN FloatZero(neg)
       ELSE IF s <= 0
       THEN IF e - t > LDBL_MAX_EXP2 THEN Infinity(neg)
            ELSE [cls |-> "fin", neg |-> neg, man |-> LimbsToDec(ShiftLeft(n, t)),
                  exp2 |-> e - t]
       ELSE With(RoundShift(n, s, cut), LAMBDA m :
                LET carry == BitLen(m) > LDBL_MANT_DIG
                    e2 == IF carry THEN e + s + 1 ELSE e + s
                IN IF m = <<>> THEN FloatZero(neg)
                   ELSE IF e2 > LDBL_MAX_EXP2 THEN Infinity(neg)
                   ELSE [cls |-> "fin", neg |-> neg,
                         man |-> LimbsToDec(IF carry THEN ShiftRight(m, 1, FALSE).n ELSE m),
                         exp2 |-> e2])

\* the long double nearest to digits * 10^exp (what strtold and the compiler
\* give for a decimal): digits * 5^exp * 2^exp for exp >= 0, and for exp < 0
\* digits * 2^k / 5^-exp with k large enough for the quotient to have more
\* than LDBL_MANT_DIG digits, times 2^(exp - k)
MkFloat(neg, digits, exp10) ==
    With(StripLeadingZeros(digits), LAMBDA d0 :
    With(StripTrailingZeros(d0), LAMBDA d :
        LET exp == exp10 + (Len(d0) - Len(d))
            w == Len(d) + exp
        IN IF d = <<>> THEN FloatZero(neg)
           ELSE IF w > LDBL_MAX_10_EXP + 1 THEN Infinity(neg)
           ELSE IF w <= LDBL_TRUE_MIN_10_EXP THEN FloatZero(neg)
           ELSE IF exp >= 0
           THEN RoundLD(neg, MulPow(MulPow(DecToLimbs(d), 15625, exp \div 6), 5^(exp % 6), 1),
                        FALSE, exp)
           ELSE With(DecToLimbs(d), LAMBDA a :
                    LET n == 0 - exp
                        need == LDBL_MANT_DIG + 3 + (n \div 1000) * 2322
                                + ((n % 1000) * 2322) \div 1000 + 1 - BitLen(a)
                        k == IF need <= 0 THEN 0 ELSE (need + LimbBits - 1) \div LimbBits
                    IN With(DivPow(DivPow([n |-> a \o Zeros(k), cut |-> FALSE], 15625, n \div 6),
                                   5^(n % 6), 1),
                            LAMBDA q : RoundLD(neg, q.n, q.cut, exp - LimbBits * k)))))

FloatIsZero(f) == f.cls = "fin" /\ f.man = <<>>

\* -1, 0 or 1
FloatSign(f) == IF FloatIsZero(f) THEN 0 ELSE IF f.neg THEN -1 ELSE 1

\* compare the magnitudes of two non-zero long doubles; -1, 0 or 1 (the
\* significand of a normal number has its highest digit set, and a denormal
\* has the exponent LDBL_MIN_EXP2)
FloatMagCmp(a, b) ==
    IF a.cls = "inf" /\ b.cls = "inf" THEN 0
    ELSE IF a.cls = "inf" THEN 1
    ELSE IF b.cls = "inf" THEN -1
    ELSE IF a.exp2 < b.exp2 THEN -1
    ELSE IF a.exp2 > b.exp2 THEN 1
    ELSE MagCmp(a.man, b.man)

\* built-in < on long double
FloatLess(a, b) ==
    LET sa == FloatSign(a)
        sb == FloatSign(b)
    IN IF sa # sb THEN sa < sb
       ELSE IF sa = 0 THEN FALSE
       ELSE IF sa = 1 THEN FloatMagCmp(a, b) = -1
       ELSE FloatMagCmp(a, b) = 1

\* built-in == on long double (-0.0 == 0.0)
FloatEq(a, b) ==
    IF FloatIsZero(a) \/ FloatIsZero(b) THEN FloatIsZero(a) /\ FloatIsZero(b)
    ELSE a = b

\* static_cast<JSONFloating>(long long): exact with a 64-bit significand
IntToFloat(i) == RoundLD(i.neg, DecToLimbs(StripLeadingZeros(i.digits)), FALSE, 0)

\* std::to_string(long long)
IntToString(i) ==
    (IF i.neg THEN <<45>> ELSE <<>>) \o [k \in 1..Len(i.digits) |-> DigitChar(i.digits[k])]

\* the digits of |f| * 10^6 rounded to an integer, ties to even (printf "%Lf"
\* prints the exact binary value rounded to 6 decimals)
FloatScaledDigits(f) ==
    IF f.man = <<>> THEN <<>>
    ELSE IF f.exp2 >= 0 THEN LimbsToDec(ShiftLeft(DecToLimbs(f.man), f.exp2)) \o Zeros(6)
    ELSE LimbsToDec(RoundShift(MulPow(DecToLimbs(f.man), 1000, 2), 0 - f.exp2, FALSE))


\* std::to_string(long double): vsnprintf "%Lf"
FloatToString(f) ==
    IF f.cls = "inf"
    THEN (IF f.neg THEN <<45>> ELSE <<>>) \o <<105, 110, 102>>
    ELSE LET sd == FloatScaledDigits(f)
             p == Zeros(IF Len(sd) < 7 THEN 7 - Len(sd) ELSE 0) \o sd
             n == Len(p)
         IN (IF f.neg THEN <<45>> ELSE <<>>)
            \o [k \in 1..(n - 6) |-> DigitChar(p[k])]
            \o <<46>>
            \o [k \in 1..6 |-> DigitChar(p[n - 6 + k])]

(***************************************************************************)
(* Outcomes of operations that may throw.                                  *)
(***************************************************************************)
Ok(v) == [ok |-> TRUE, val |-> v]

\* throw simpleJSON::JSONException(msg)
Throw(msg) == [ok |-> FALSE, exc |-> "JSONException", msg |-> msg]

\* an exception of the standard library escaping the call
ThrowStd(what) == [ok |-> FALSE, exc |-> what, msg |-> what]

(***************************************************************************)
(* Numeric conversion of a lexeme: strtoll / strtold and their wrappers.   *)
(***************************************************************************)
\* str[i], or the terminating NUL of c_str() past the end
CharAt(str, i) == IF i >= 1 /\ i <= Len(str) THEN str[i] ELSE 0

\* first index >= i that does not hold a decimal digit
DigitRunEnd(str, i) ==
    IF \A j \in i..Len(str) : IsDigit(str[j]) THEN (IF i > Len(str) THEN i ELSE Len(str) + 1)
    ELSE CHOOSE j \in i..Len(str) : ~IsDigit(str[j]) /\ \A k \in i..(j - 1) : IsDigit(str[k])

\* the digit values of str[from..to-1]
DigitsOf(str, from, to) == [k \in 1..(to - from) |-> DigitVal(str[from + k - 1])]

\* std::strtoll(str, &afterEnd, 10): value and index of *afterEnd
StrToLL(str) ==
    With(IF CharAt(str, 1) = 45 \/ CharAt(str, 1) = 43 THEN 2 ELSE 1, LAMBDA i0 :
    With(DigitRunEnd(str, i0), LAMBDA i1 :
    With(StripLeadingZeros(DigitsOf(str, i0, i1)), LAMBDA mag :
        LET neg == CharAt(str, 1) = 45
        IN IF i1 = i0 THEN [val |-> IntOf(0), end |-> 1]
           ELSE IF mag = <<>> THEN [val |-> IntOf(0), end |-> i1]
           ELSE IF neg /\ MagCmp(mag, LLONG_MIN.digits) = 1
           THEN [val |-> LLONG_MIN, end |-> i1]
           ELSE IF ~neg /\ MagCmp(mag, LLONG_MAX.digits) = 1
           THEN [val |-> LLONG_MAX, end |-> i1]
           ELSE [val |-> [neg |-> neg, digits |-> mag], end |-> i1])))


\* the sum e + k of the decimal exponent e written in a lexeme (eNeg: with a
\* minus sign; eD: its digits without leading zeros, however many) and an
\* integer k, where the sum lies within -100000..100000, and otherwise a
\* number beyond 100000 with the sign of the sum.  e is eh * 10^5 + el and k
\* is (k \div 10^5) * 10^5 + k % 10^5, so e + k is hi * 10^5 + lo with lo in
\* -99999..199998: above 100000 when hi >= 2 and below -100000 when
\* hi <= -3.  An e of ten digits or more with more than one digit more than
\* k is at least 10^9 and more than ten times k in magnitude, so e + k has
\* the sign of e and a magnitude above 100000.
ExponentPlus(eNeg, eD, k) ==
    LET sign == IF eNeg THEN 0 - 1 ELSE 1
        cut == IF Len(eD) > 5 THEN Len(eD) - 5 ELSE 0
        far == Len(eD) > 9 /\ Len(eD) > Len(NatDigits(IF k < 0 THEN 0 - k ELSE k)) + 1
        hi == sign * DigitsToNat(SubSeq(eD, 1, cut)) + (k \div 100000)
        lo == sign * DigitsToNat(SubSeq(eD, cut + 1, Len(eD))) + (k % 100000)
    IN IF far THEN sign * 1000000
       ELSE IF hi >= 2 THEN 1000000
       ELSE IF hi <= 0 - 3 THEN 0 - 1000000
       ELSE hi * 100000 + lo

\* std::strtold(str, &afterEnd): value and index of *afterEnd.  With d0 the
\* digits of the significand from its first non-zero digit on, the value is
\* 0.d0 * 10^w, w being the exponent plus the count of the digits of d0
\* before the decimal point (minus the count of the zeros between the point
\* and d0); a w above 100000 gives infinity and one below -100000 gives zero,
\* however far beyond it is.
StrToLD(str) ==
    With(IF CharAt(str, 1) = 45 \/ CharAt(str, 1) = 43 THEN 2 ELSE 1, LAMBDA i0 :
    With(DigitRunEnd(str, i0), LAMBDA i1 :
    With(IF CharAt(str, i1) = 46 THEN DigitRunEnd(str, i1 + 1) ELSE i1, LAMBDA i2 :
    With(IF CharAt(str, i2 + 1) = 45 \/ CharAt(str, i2 + 1) = 43 THEN i2 + 2 ELSE i2 + 1,
         LAMBDA j0 :
    With(DigitRunEnd(str, j0), LAMBDA j1 :
    With(StripLeadingZeros(DigitsOf(str, j0, j1)), LAMBDA eD :
        LET neg == CharAt(str, 1) = 45
            hasDot == CharAt(str, i1) = 46
            intD == DigitsOf(str, i0, i1)
            fracD == IF hasDot THEN DigitsOf(str, i1 + 1, i2) ELSE <<>>
            hasE == CharAt(str, i2) = 101 \/ CharAt(str, i2) = 69
            eNeg == CharAt(str, i2 + 1) = 45
            hasExp == hasE /\ j1 > j0
        IN IF Len(intD) + Len(fracD) = 0 THEN [val |-> MkFloat(FALSE, <<>>, 0), end |-> 1]
           ELSE With(StripLeadingZeros(intD \o fracD), LAMBDA d0 :
                    LET k == Len(d0) - Len(fracD)
                        w == IF hasExp THEN ExponentPlus(eNeg, eD, k)
                             ELSE ExponentPlus(FALSE, <<>>, k)
                    IN [val |-> MkFloat(neg, d0, w - Len(d0)),
                        end |-> IF hasExp THEN j1 ELSE i2])))))))

\* index of the first '.' in str, Len(str) + 1 if there is none (std::find)
FindDot(str, i) ==
    IF \A j \in i..Len(str) : str[j] # 46 THEN (IF i > Len(str) THEN i ELSE Len(str) + 1)
    ELSE CHOOSE j \in i..Len(str) : str[j] = 46 /\ \A k \in i..(j - 1) : str[k] # 46

\* index of the first 'e' or 'E' in str, Len(str) + 1 if there is none (std::find_if)
FindE(str, i) ==
    IF \A j \in i..Len(str) : str[j] # 101 /\ str[j] # 69
    THEN (IF i > Len(str) THEN i ELSE Len(str) + 1)
    ELSE CHOOSE j \in i..Len(str) :
             (str[j] = 101 \/ str[j] = 69) /\ \A k \in i..(j - 1) : str[k] # 101 /\ str[k] # 69

\* internal::strToJSONFloating (str is never empty: parseNumber is entered on '-' or a digit)
strToJSONFloating(str) ==
    LET n == Len(str)
        dotIt == FindDot(str, 1)
        eIt == FindE(str, 1)
    IN IF str[n] = 46
       THEN Throw("Error while parsing number, decimal point cannot be the last character")
       ELSE IF dotIt <= n /\ eIt <= n /\ eIt - dotIt = 1
       THEN Throw("Error while parsing number, 'e' or 'E' cannot be the first character after decimal point")
       ELSE IF (n >= 1 /\ str[1] = 46) \/ (n >= 2 /\ str[1] = 45 /\ str[2] = 46)
       THEN Throw("Error while parsing number, missing digit before decimal point")
       ELSE With(StrToLD(str), LAMBDA r :
                IF CharAt(str, r.end) # 0
                THEN Throw("Error while parsing number, invalid floating point number")
                ELSE Ok(r.val))

\* internal::strToJSONInteger
strToJSONInteger(str) ==
    LET n == Len(str)
    IN IF (n > 1 /\ str[1] = 48) \/ (n > 2 /\ str[1] = 45 /\ str[2] = 48)
       THEN Throw("Error while parsing number, integer cannot start with 0")
       ELSE With(StrToLL(str), LAMBDA r :
                IF CharAt(str, r.end) # 0
                THEN Throw("Error while parsing number, invalid integer")
                ELSE Ok(r.val))

(***************************************************************************)
(* The value model.  A JSONObject is the pair of its active variant (kind) *)
(* and the payload (val): a JSONString holds its bytes, a JSONNumber the   *)
(* active alternative and the number, a JSONArray the sequence of its      *)
(* elements, a JSONMap the entries of its std::map in iteration (ascending *)
(* key) order.                                                             *)
(***************************************************************************)
\* the alternative the variant holds
Kind(o) == o[1]

\* the value of the held alternative
Val(o) == o[2]

\* JSONObject holding a JSONNumber
JNumber(n) == <<"JSONNumber", n>>

\* JSONObject(const T&) with T a string type
JString(bytes) == <<"JSONString", bytes>>

\* variant<JSONFloating, JSONInteger> holding a long long
NumInt(i) == [alt |-> "JSONInteger", num |-> i]

\* variant<JSONFloating, JSONInteger> holding a long double
NumFloat(f) == [alt |-> "JSONFloating", num |-> f]

\* JSONObject(const T&) with T an integral type other than bool
JInt(i) == JNumber(NumInt(i))

\* JSONObject(const T&) with T a floating point type
JFloat(f) == JNumber(NumFloat(f))

JBool(b) == <<"JSONBool", b>>

JNull == <<"JSONNull", "null">>

JArray(elems) == <<"JSONArray", elems>>

\* a JSONObject holding a JSONMap with the given entries (in key order)
JMap(entries) == <<"JSONMap", entries>>

\* JSONObject::JSONObject() : mValue(JSONMap{})
DefaultObject == JMap(<<>>)

\* operator==(const JSONNumber&, const JSONNumber&): std::variant equality,
\* which compares the active index before the values
NumberEq(a, b) ==
    a.alt = b.alt /\ (IF a.alt = "JSONFloating" THEN FloatEq(a.num, b.num) ELSE a.num = b.num)

\* operator!=(const JSONNumber&, const JSONNumber&)
NumberNotEq(a, b) == ~NumberEq(a, b)

\* a faulty operator<: std::variant's own ordering, which orders operands of
\* different alternatives by the index of the alternative
NumberLessByVariantIndex(a, b) ==
    IF a.alt = b.alt
    THEN IF a.alt = "JSONFloating" THEN FloatLess(a.num, b.num) ELSE IntLess(a.num, b.num)
    ELSE a.alt = "JSONFloating"

\* operator<(const JSONNumber&, const JSONNumber&)
NumberLess(a, b) ==
    IF a.alt = "JSONFloating" /\ b.alt = "JSONFloating" THEN FloatLess(a.num, b.num)
    ELSE IF a.alt = "JSONFloating" /\ b.alt = "JSONInteger" THEN FloatLess(a.num, IntToFloat(b.num))
    ELSE IF a.alt = "JSONInteger" /\ b.alt = "JSONFloating" THEN FloatLess(IntToFloat(a.num), b.num)
    ELSE IntLess(a.num, b.num)

\* operator<=(const JSONNumber&, const JSONNumber&)
NumberLessEq(a, b) == NumberLess(a, b) \/ NumberEq(a, b)

\* operator>(const JSONNumber&, const JSONNumber&)
NumberGreater(a, b) == ~NumberLessEq(a, b)

\* operator>=(const JSONNumber&, const JSONNumber&)
NumberGreaterEq(a, b) == NumberGreater(a, b) \/ NumberEq(a, b)

\* operator==(const JSONObject&, const JSONObject&): variant equality,
\* recursively.  std::vector compares the sizes first; a vector whose end is
\* before its begin (Len(a) = 3, see Underrun below) has a size no other
\* vector has, and against one of its own size the comparison walks from
\* begin to an end it never meets: false, if it comes back
RECURSIVE ObjectEq(_, _)
ObjectEq(a, b) ==
    /\ Kind(a) = Kind(b)
    /\ CASE Kind(a) = "JSONString" -> Val(a) = Val(b)
         [] Kind(a) = "JSONNumber" -> NumberEq(Val(a), Val(b))
         [] Kind(a) = "JSONBool" -> Val(a) = Val(b)
         [] Kind(a) = "JSONNull" -> TRUE
         [] Kind(a) = "JSONArray" ->
                /\ Len(a) = 2 /\ Len(b) = 2
                /\ Len(Val(a)) = Len(Val(b))
                /\ \A i \in 1..Len(Val(a)) : ObjectEq(Val(a)[i], Val(b)[i])
         [] Kind(a) = "JSONMap" ->
                /\ Len(Val(a)) = Len(Val(b))
                /\ \A i \in 1..Len(Val(a)) :
                      /\ Val(a)[i].key = Val(b)[i].key
                      /\ ObjectEq(Val(a)[i].value, Val(b)[i].value)

\* operator!=(JSONObject, JSONObject)
ObjectNotEq(a, b) == ~ObjectEq(a, b)

\* operator<(JSONObject, JSONObject)
ObjectLess(lhs, rhs) ==
    IF Kind(lhs) = "JSONString" /\ Kind(rhs) = "JSONString"
    THEN Ok(SeqLess(Val(lhs), Val(rhs)))
    ELSE IF Kind(lhs) = "JSONNumber" /\ Kind(rhs) = "JSONNumber"
    THEN Ok(NumberLess(Val(lhs), Val(rhs)))
    ELSE Throw("JSONObjects must hold JSONString or JSONNumber to use operator<")

\* a faulty operator<=: equal operands are accepted before their kinds are looked at
ObjectLessEqEqualFirst(lhs, rhs) ==
    IF ObjectEq(lhs, rhs) THEN Ok(TRUE) ELSE ObjectLess(lhs, rhs)

\* operator<=(JSONObject, JSONObject): (lhs < rhs) || (lhs == rhs)
ObjectLessEq(lhs, rhs) ==
    LET r == ObjectLess(lhs, rhs)
    IN IF r.ok THEN Ok(r.val \/ ObjectEq(lhs, rhs)) ELSE r

\* operator>(JSONObject, JSONObject)
ObjectGreater(lhs, rhs) ==
    IF Kind(lhs) = "JSONString" /\ Kind(rhs) = "JSONString"
    THEN Ok(SeqLess(Val(rhs), Val(lhs)))
    ELSE IF Kind(lhs) = "JSONNumber" /\ Kind(rhs) = "JSONNumber"
    THEN Ok(NumberGreater(Val(lhs), Val(rhs)))
    ELSE Throw("JSONObjects must hold JSONString or JSONNumber to use operator>")

\* operator>=(JSONObject, JSONObject): (lhs > rhs) || (lhs == rhs)
ObjectGreaterEq(lhs, rhs) ==
    LET r == ObjectGreater(lhs, rhs)
    IN IF r.ok THEN Ok(r.val \/ ObjectEq(lhs, rhs)) ELSE r

(***************************************************************************)
(* std::map<JSONString, JSONObject> as a sequence of entries sorted by     *)
(* operator<(JSONString, JSONString).                                      *)
(***************************************************************************)
\* position of key among the entries, 0 if absent (std::map::find)
MapFind(entries, key) ==
    IF \E i \in 1..Len(entries) : entries[i].key = key
    THEN CHOOSE i \in 1..Len(entries) : entries[i].key = key
    ELSE 0
\* a faulty insertion point: a new entry goes after the entries already there
MapLowerBoundAtEnd(entries, key) == Len(entries)

\* number of entries whose key is less than key: where a new entry goes
MapLowerBound(entries, key) ==
    Cardinality({i \in 1..Len(entries) : SeqLess(entries[i].key, key)})

\* std::map::insert: no effect when the key is already present
MapInsert(entries, key, value) ==
    IF MapFind(entries, key) # 0 THEN entries
    ELSE LET n == MapLowerBound(entries, key)
         IN SubSeq(entries, 1, n) \o <<[key |-> key, value |-> value]>>
            \o SubSeq(entries, n + 1, Len(entries))

\* a faulty assignment: an entry that is already present keeps its value
MapAssignKeepFirst(entries, key, value) == MapInsert(entries, key, value)

\* the entries after `map[key] = value`: std::map::operator[] then assignment
MapAssign(entries, key, value) ==
    LET i == MapFind(entries, key)
    IN IF i # 0 THEN [entries EXCEPT ![i].value = value]
       ELSE MapInsert(entries, key, value)

\* std::map::erase of the entry at position i
MapErase(entries, i) == SubSeq(entries, 1, i - 1) \o SubSeq(entries, i + 1, Len(entries))

\* std::map(initializer_list): the pairs are inserted in list order
RECURSIVE MapFromList(_)
MapFromList(list) ==
    IF list = <<>> THEN <<>>
    ELSE LET n == Len(list)
         IN MapInsert(MapFromList(SubSeq(list, 1, n - 1)), list[n].key, list[n].value)

(***************************************************************************)
(* Serialization.                                                          *)
(***************************************************************************)
\* JSONString::toString: the raw bytes between two double quotes
StringToString(bytes) == <<34>> \o bytes \o <<34>>

\* JSONNumber::toString: std::to_string of the active alternative
NumberToString(n) ==
    IF n.alt = "JSONFloating" THEN FloatToString(n.num) ELSE IntToString(n.num)

\* JSONBool::toString
BoolToString(b) == IF b THEN Txt(<<"t", "r", "u", "e">>) ELSE Txt(<<"f", "a", "l", "s", "e">>)

\* JSONNull::toString
NullToString == Txt(<<"n", "u", "l", "l">>)

\* res.back() = c : overwrite the last character
SetBack(res, c) == SubSeq(res, 1, Len(res) - 1) \o <<c>>

\* JSONObject::toString, with JSONArray::toString and JSONMap::toString
RECURSIVE toString(_), ArrayToStringLoop(_, _, _), MapToStringLoop(_, _, _)
toString(v) ==
    CASE Kind(v) = "JSONString" -> StringToString(Val(v))
      [] Kind(v) = "JSONNumber" -> NumberToString(Val(v))
      [] Kind(v) = "JSONBool" -> BoolToString(Val(v))
      [] Kind(v) = "JSONNull" -> NullToString
      [] Kind(v) = "JSONArray" ->
            IF Len(Val(v)) = 0 THEN <<91, 93>>
            ELSE SetBack(ArrayToStringLoop(Val(v), 1, <<91>>), 93)
      [] Kind(v) = "JSONMap" ->
            IF Len(Val(v)) = 0 THEN <<123, 125>>
            ELSE SetBack(MapToStringLoop(Val(v), 1, <<123>>), 125)

\* for (elem : mValue) res += elem.toString() + ","
ArrayToStringLoop(elems, i, res) ==
    IF i > Len(elems) THEN res
    ELSE ArrayToStringLoop(elems, i + 1, res \o toString(elems[i]) \o <<44>>)

\* for ([key, val] : mValue) res += key.toString() + ":" + val.toString() + ","
MapToStringLoop(entries, i, res) ==
    IF i > Len(entries) THEN res
    ELSE MapToStringLoop(entries, i + 1,
            res \o StringToString(entries[i].key) \o <<58>>
                \o toString(entries[i].value) \o <<44>>)
\* a faulty erase: nothing is erased
EraseNothing(str, pos) == str

\* std::string::erase(pos): keep the first pos characters
EraseFrom(str, pos) == SubSeq(str, 1, pos)

\* JSONObject::toIndentedString, with the JSONArray and JSONMap versions;
\* the result is the text and the value left in currentIndentation
RECURSIVE toIndentedString(_, _, _), ArrayIndentedLoop(_, _, _, _, _),
          MapIndentedLoop(_, _, _, _, _)
toIndentedString(v, currentIndentation, indentString) ==
    CASE Kind(v) \in {"JSONString", "JSONNumber", "JSONBool", "JSONNull"} ->
            [res |-> toString(v), cur |-> currentIndentation]
      [] Kind(v) = "JSONArray" ->
            IF Len(Val(v)) = 0 THEN [res |-> <<91, 93>>, cur |-> currentIndentation]
            ELSE LET l == ArrayIndentedLoop(Val(v), 1, <<91, 10>>,
                                            currentIndentation \o indentString, indentString)
                     cur == EraseFrom(l.cur, Len(l.cur) - Len(indentString))
                 IN [res |-> EraseFrom(l.res, Len(l.res) - 2) \o <<10>> \o cur \o <<93>>,
                     cur |-> cur]
      [] Kind(v) = "JSONMap" ->
            IF Len(Val(v)) = 0 THEN [res |-> <<123, 125>>, cur |-> currentIndentation]
            ELSE LET l == MapIndentedLoop(Val(v), 1, <<123, 10>>,
                                          currentIndentation \o indentString, indentString)
                     cur == EraseFrom(l.cur, Len(l.cur) - Len(indentString))
                 IN [res |-> EraseFrom(l.res, Len(l.res) - 2) \o <<10>> \o cur \o <<125>>,
                     cur |-> cur]

\* res += currentIndentation + elem.toIndentedString(...) + ",\n"
ArrayIndentedLoop(elems, i, res, cur, indentString) ==
    IF i > Len(elems) THEN [res |-> res, cur |-> cur]
    ELSE LET r == toIndentedString(elems[i], cur, indentString)
         IN ArrayIndentedLoop(elems, i + 1, res \o cur \o r.res \o <<44, 10>>,
                              r.cur, indentString)

\* res += currentIndentation + key.toString() + " : " + val.toIndentedString(...) + ",\n"
MapIndentedLoop(entries, i, res, cur, indentString) ==
    IF i > Len(entries) THEN [res |-> res, cur |-> cur]
    ELSE LET r == toIndentedString(entries[i].value, cur, indentString)
         IN MapIndentedLoop(entries, i + 1,
                res \o cur \o StringToString(entries[i].key) \o <<32, 58, 32>>
                    \o r.res \o <<44, 10>>,
                r.cur, indentString)

\* simpleJSON::dumpToString
dumpToString(obj) == toString(obj)

\* the default indentString
defaultIndentString == <<9>>

\* simpleJSON::dumpToPrettyString
dumpToPrettyString(obj, indentString) == toIndentedString(obj, <<>>, indentString).res

(***************************************************************************)
(* The character source: a std::istream over the bytes buf, with the read  *)
(* position and the eofbit / failbit of its state.                         *)
(***************************************************************************)
\* std::istream::traits_type::eof()
EOF == 0 - 1

\* std::stringstream stream(jsonString)
StringStream(bytes) == [buf |-> bytes, pos |-> 1, eofbit |-> FALSE, failbit |-> FALSE]

\* std::ifstream stream(fileName) on a file that cannot be opened
FailedStream == [buf |-> <<>>, pos |-> 1, eofbit |-> FALSE, failbit |-> TRUE]

\* stream.good()
Good(s) == ~s.eofbit /\ ~s.failbit

\* static_cast<bool>(stream): !fail()
StreamOk(s) == ~s.failbit

\* stream.peek(): the next byte or EOF; the sentry sets failbit when the
\* stream is not good, reaching the end sets eofbit
Peek(s) ==
    IF ~Good(s) THEN [c |-> EOF, s |-> [s EXCEPT !.failbit = TRUE]]
    ELSE IF s.pos > Len(s.buf) THEN [c |-> EOF, s |-> [s EXCEPT !.eofbit = TRUE]]
    ELSE [c |-> s.buf[s.pos], s |-> s]

\* stream.get(c): c keeps its old value when nothing can be extracted
Get(s, old) ==
    IF ~Good(s) THEN [c |-> old, s |-> [s EXCEPT !.failbit = TRUE]]
    ELSE IF s.pos > Len(s.buf)
         THEN [c |-> old, s |-> [s EXCEPT !.eofbit = TRUE, !.failbit = TRUE]]
    ELSE [c |-> s.buf[s.pos], s |-> [s EXCEPT !.pos = s.pos + 1]]

\* static_cast<char>(int): the low byte; EOF (-1) becomes the byte 0xFF
ToChar(i) == i % 256

\* a faulty detectNextType: the end of the stream is taken for an unexpected
\* character
detectNextTypeWithoutEnd(c) ==
    IF c = 34 THEN "JSON_STRING"
    ELSE IF c = 45 \/ (c >= 48 /\ c <= 57) THEN "JSON_NUMBER"
    ELSE IF c = 116 \/ c = 102 THEN "JSON_BOOL"
    ELSE IF c = 110 THEN "JSON_NULL"
    ELSE IF c = 91 THEN "JSON_ARRAY"
    ELSE IF c = 123 THEN "JSON_OBJECT"
    ELSE "JSON_ERROR"

\* internal::NextJsonType internal::detectNextType(const char)
detectNextType(c) ==
    IF c = 34 THEN "JSON_STRING"
    ELSE IF c = 45 \/ (c >= 48 /\ c <= 57) THEN "JSON_NUMBER"
    ELSE IF c = 116 \/ c = 102 THEN "JSON_BOOL"
    ELSE IF c = 110 THEN "JSON_NULL"
    ELSE IF c = 91 THEN "JSON_ARRAY"
    ELSE IF c = 123 THEN "JSON_OBJECT"
    ELSE IF SignedChar(c) = EOF THEN "JSON_END_OF_STREAM"
    ELSE "JSON_ERROR"

\* a faulty check: any character may follow a backslash
anyEscapedCharacter(c) == c \in 0..255

\* internal::isValidEscapedCharacter
isValidEscapedCharacter(c) ==
    c = 34 \/ c = 47 \/ c = 92 \/ c = 98 \/ c = 102 \/ c = 110 \/ c = 114 \/ c = 116 \/ c = 117
\* a faulty whitespace test, the one of isspace: form feed and vertical tab too
isSpace(c) == c = 32 \/ c = 10 \/ c = 13 \/ c = 9 \/ c = 12 \/ c = 11

\* internal::isValidWhitespace
isValidWhitespace(c) == c = 32 \/ c = 10 \/ c = 13 \/ c = 9

\* internal::peekNextNonSpaceCharacter: the char and the stream afterwards
RECURSIVE peekNextNonSpaceCharacter(_)
peekNextNonSpaceCharacter(s) ==
    LET p == Peek(s)
        next == ToChar(p.c)
    IN IF isValidWhitespace(next)
       THEN peekNextNonSpaceCharacter(Get(p.s, 0).s)
       ELSE [c |-> next, s |-> p.s]

(***************************************************************************)
(* The parser.  Every routine yields either Throw(msg) or                  *)
(* [ok |-> TRUE, val |-> the value read, s |-> the stream afterwards].     *)
(***************************************************************************)
Parsed(v, s) == [ok |-> TRUE, val |-> v, s |-> s]

\* one round of the while (stream) loop of internal::parseString, from the
\* locals in st: the result of the function when the round leaves it (done),
\* the locals after the round otherwise
StringRound(st) ==
    LET s == st.s
        currentChar == st.currentChar
        currentCharIsEscaped == st.currentCharIsEscaped
        Leave(r) == [done |-> TRUE, out |-> r]
    IN IF ~StreamOk(s)
       THEN Leave(Throw("Error while parsing string, unexpected end of stream"))
       ELSE IF st.numHexDigitsToRead > 0 /\ ~IsXDigit(currentChar)
       THEN Leave(Throw("\\u must be followed by 4 hex characters"))
       ELSE LET nhex == IF st.numHexDigitsToRead > 0 THEN st.numHexDigitsToRead - 1
                        ELSE st.numHexDigitsToRead
            IN IF currentChar = 34 /\ ~currentCharIsEscaped
               THEN Leave(Parsed(st.result, s))
               ELSE IF 0 <= SignedChar(currentChar) /\ SignedChar(currentChar) <= 31
               THEN Leave(Throw("Error while parsing string, unescaped control character"))
               ELSE LET startsEscape == currentChar = 92 /\ ~currentCharIsEscaped
                        endsEscape == ~startsEscape /\ currentCharIsEscaped
                        g == Get(s, currentChar)
                    IN IF endsEscape /\ ~isValidEscapedCharacter(currentChar)
                       THEN Leave(Throw("Error while parsing string, invalid escaped character"))
                       ELSE [done |-> FALSE, s |-> g.s, currentChar |-> g.c,
                             result |-> st.result \o <<currentChar>>,
                             currentCharIsEscaped |-> startsEscape,
                             numHexDigitsToRead |->
                                 IF endsEscape /\ currentChar = 117 THEN 4 ELSE nhex]

\* at most k rounds of that loop
RECURSIVE StringRounds(_, _)
StringRounds(st, k) ==
    IF st.done \/ k = 0 THEN st
    ELSE IF k = 1 THEN StringRound(st)
    ELSE Strict(StringRounds(st, k \div 2), LAMBDA b : StringRounds(b, k - k \div 2))

\* the while (stream) loop of internal::parseString: every round but the last
\* one calls stream.get, which reads a byte or fails, and the round after a
\* failure is the last
StringLoop(s, currentChar, result, currentCharIsEscaped, numHexDigitsToRead) ==
    StringRounds([done |-> FALSE, s |-> s, currentChar |-> currentChar, result |-> result,
                  currentCharIsEscaped |-> currentCharIsEscaped,
                  numHexDigitsToRead |-> numHexDigitsToRead], Len(s.buf) + 2).out

\* a faulty parseString: at the end of the stream the string is closed as if
\* its quote had been read
parseStringToEnd(s) ==
    LET g1 == Get(s, 0)
        g2 == Get(g1.s, g1.c)
        r == StringLoop(g2.s, g2.c, <<>>, FALSE, 0)
    IN IF g1.c # 34 THEN Throw("Error while parsing string, expected '\"'")
       ELSE IF r = Throw("Error while parsing string, unexpected end of stream")
       THEN Parsed(<<>>, [s EXCEPT !.pos = Len(s.buf) + 1, !.eofbit = TRUE])
       ELSE r

\* internal::parseString
parseString(s) ==
    LET g1 == Get(s, 0)
        g2 == Get(g1.s, g1.c)
    IN IF g1.c # 34 THEN Throw("Error while parsing string, expected '\"'")
       ELSE StringLoop(g2.s, g2.c, <<>>, FALSE, 0)

\* the characters a number lexeme is collected from
IsNumberChar(c) ==
    IsDigit(c) \/ c = 46 \/ c = 45 \/ c = 101 \/ c = 69 \/ c = 43

\* the position in the stream at which the while loop of internal::parseNumber
\* ends: that of the first byte that is not a number character, the end of
\* the stream if there is none
NumberRun(s) ==
    IF s.pos > Len(s.buf) THEN s.pos
    ELSE IF \A j \in s.pos..Len(s.buf) : IsNumberChar(s.buf[j]) THEN Len(s.buf) + 1
    ELSE CHOOSE j \in s.pos..Len(s.buf) :
             ~IsNumberChar(s.buf[j]) /\ \A k \in s.pos..(j - 1) : IsNumberChar(s.buf[k])

\* the while loop of internal::parseNumber: the lexeme and the stream
\* afterwards; every round but the last one reads a byte of the stream, the
\* last one peeks at a byte that is not a number character or at the end of
\* the stream (eofbit), or fails to peek into a stream that is not good
\* (failbit)
NumberLoop(s, numberAsString) ==
    IF ~Good(s) THEN [str |-> numberAsString, s |-> Peek(s).s]
    ELSE With(NumberRun(s), LAMBDA j :
             [str |-> numberAsString \o SubSeq(s.buf, s.pos, j - 1),
              s |-> Peek([s EXCEPT !.pos = j]).s])

\* a short that was 0 and has been incremented n times (16 bits, two's complement)
ShortAfter(n) == IF n % 65536 >= 32768 THEN (n % 65536) - 65536 ELSE n % 65536

\* internal::parseNumber: floating when the count of '.' or the count of 'e'
\* and 'E' in the lexeme, each kept in a short, is not 0
parseNumber(s) ==
    With(NumberLoop(s, <<>>), LAMBDA l :
        LET dotCount == ShortAfter(Cardinality({i \in 1..Len(l.str) : l.str[i] = 46}))
            eCount == ShortAfter(Cardinality({i \in 1..Len(l.str) :
                                                l.str[i] = 101 \/ l.str[i] = 69}))
        IN IF dotCount # 0 \/ eCount # 0
           THEN With(strToJSONFloating(l.str), LAMBDA r :
                    IF r.ok THEN Parsed(NumFloat(r.val), l.s) ELSE r)
           ELSE With(strToJSONInteger(l.str), LAMBDA r :
                    IF r.ok THEN Parsed(NumInt(r.val), l.s) ELSE r))

\* internal::parseBool
parseBool(s) ==
    LET g1 == Get(s, 0)
        g2 == Get(g1.s, 0)
        g3 == Get(g2.s, 0)
        g4 == Get(g3.s, 0)
        g5 == Get(g4.s, 0)
        out == <<g1.c, g2.c, g3.c, g4.c>>
    IN IF out = Txt(<<"t", "r", "u", "e">>) THEN Parsed(TRUE, g4.s)
       ELSE IF out[1] = 102 /\ out \o <<g5.c>> = Txt(<<"f", "a", "l", "s", "e">>)
       THEN Parsed(FALSE, g5.s)
       ELSE Throw("Error while parsing bool, expected \"true\" or \"false\"")

\* internal::parseNull
parseNull(s) ==
    LET g1 == Get(s, 0)
        g2 == Get(g1.s, 0)
        g3 == Get(g2.s, 0)
        g4 == Get(g3.s, 0)
        out == <<g1.c, g2.c, g3.c, g4.c>>
    IN IF out # Txt(<<"n", "u", "l", "l">>)
       THEN Throw("Error while parsing null, expected \"null\"")
       ELSE Parsed("null", g4.s)

\* internal::parseArray and internal::parseObject, their loops, and the
\* switch (nextType) that each of them and beginParseFromStream contains
RECURSIVE parseArray(_), ArrayLoop(_, _, _, _), parseObject(_), ObjectLoop(_, _, _),
          ParseByType(_, _)

\* case JSON_STRING ... case JSON_OBJECT: the value parsed as a JSONObject
ParseByType(nextType, s) ==
    CASE nextType = "JSON_STRING" ->
            With(parseString(s), LAMBDA r : IF r.ok THEN Parsed(JString(r.val), r.s) ELSE r)
      [] nextType = "JSON_NUMBER" ->
            With(parseNumber(s), LAMBDA r : IF r.ok THEN Parsed(JNumber(r.val), r.s) ELSE r)
      [] nextType = "JSON_BOOL" ->
            With(parseBool(s), LAMBDA r : IF r.ok THEN Parsed(JBool(r.val), r.s) ELSE r)
      [] nextType = "JSON_NULL" ->
            With(parseNull(s), LAMBDA r : IF r.ok THEN Parsed(JNull, r.s) ELSE r)
      [] nextType = "JSON_ARRAY" ->
            With(parseArray(s), LAMBDA r : IF r.ok THEN Parsed(JArray(r.val), r.s) ELSE r)
      [] nextType = "JSON_OBJECT" -> parseObject(s)

\* a faulty parseArray: the loop starts as if an element had just been read
parseArrayAfterElement(s) ==
    LET g == Get(s, 0)
    IN IF g.c # 91 THEN Throw("Error while parsing array, expected '['")
       ELSE ArrayLoop(g.s, <<>>, TRUE, FALSE)

parseArray(s) ==
    LET g == Get(s, 0)
    IN IF g.c # 91 THEN Throw("Error while parsing array, expected '['")
       ELSE ArrayLoop(g.s, <<>>, FALSE, FALSE)

ArrayLoop(s, result, expectingComma, lastReadWasComma) ==
    IF ~StreamOk(s) THEN Throw("Error while parsing array, unexpected end of stream")
    ELSE With(peekNextNonSpaceCharacter(s), LAMBDA p :
         With(detectNextType(p.c), LAMBDA nextType :
            IF p.c = 44
            THEN IF expectingComma
                 THEN ArrayLoop(Get(p.s, p.c).s, result, FALSE, TRUE)
                 ELSE Throw("Unexpected comma when parsing array")
            ELSE IF p.c = 93
            THEN IF lastReadWasComma
                 THEN Throw("Trailing comma not allowed in array")
                 ELSE Parsed(result, Get(p.s, p.c).s)
            ELSE IF expectingComma
            THEN Throw("Entries in array must be separated by a comma")
            ELSE IF nextType = "JSON_ERROR"
            THEN Throw("Error while parsing array, unexpected next character")
            ELSE IF nextType = "JSON_END_OF_STREAM"
            THEN ArrayLoop(p.s, result, TRUE, FALSE)
            ELSE With(ParseByType(nextType, p.s), LAMBDA r :
                     IF r.ok THEN ArrayLoop(r.s, Append(result, r.val), TRUE, FALSE)
                     ELSE r)))

\* a faulty parseObject: the loop starts as if a comma had just been read
parseObjectAfterComma(s) ==
    LET g == Get(s, 0)
    IN IF g.c # 123 THEN Throw("Error while parsing object, expected '{'")
       ELSE ObjectLoop(g.s, DefaultObject, TRUE)

parseObject(s) ==
    LET g == Get(s, 0)
    IN IF g.c # 123 THEN Throw("Error while parsing object, expected '{'")
       ELSE ObjectLoop(g.s, DefaultObject, FALSE)

ObjectLoop(s, result, lastReadWasComma) ==
    IF ~StreamOk(s) THEN Parsed(result, s)
    ELSE With(peekNextNonSpaceCharacter(s), LAMBDA p1 :
            IF p1.c = 125
            THEN IF lastReadWasComma
                 THEN Throw("Trailing comma not allowed in object")
                 ELSE Parsed(result, Get(p1.s, 0).s)
            ELSE IF p1.c # 34
            THEN Throw("Error while parsing object, expected '\"'")
            ELSE With(parseString(p1.s), LAMBDA k :
            IF ~k.ok THEN k
            ELSE With(peekNextNonSpaceCharacter(k.s), LAMBDA p2 :
                 With(Get(p2.s, p2.c), LAMBDA g2 :
                 With(peekNextNonSpaceCharacter(g2.s), LAMBDA p3 :
                 With(detectNextType(p3.c), LAMBDA nextType :
            IF g2.c # 58
            THEN Throw("Error while parsing object, expected ':'")
            ELSE IF nextType = "JSON_ERROR"
            THEN Throw("Error while parsing object, unexpected next character")
            ELSE With(IF nextType = "JSON_END_OF_STREAM" THEN Parsed("none", p3.s)
                      ELSE ParseByType(nextType, p3.s), LAMBDA r :
            IF ~r.ok THEN r
            ELSE With(IF nextType = "JSON_END_OF_STREAM" THEN result
                      ELSE JMap(MapAssign(Val(result), k.val, r.val)), LAMBDA stored :
                 With(peekNextNonSpaceCharacter(r.s), LAMBDA p4 :
                 With(Get(p4.s, p4.c), LAMBDA g4 :
            IF g4.c = 44 THEN ObjectLoop(g4.s, stored, TRUE)
            ELSE IF g4.c = 125 THEN Parsed(stored, g4.s)
            ELSE Throw("Error while parsing object, unexpected next character")))))))))))

\* internal::beginParseFromStream
beginParseFromStream(stream) ==
    With(peekNextNonSpaceCharacter(stream), LAMBDA p :
    With(detectNextType(p.c), LAMBDA nextType :
        IF nextType = "JSON_END_OF_STREAM"
        THEN Throw("Cannot parse empty file or file containing only whitespace")
        ELSE IF nextType = "JSON_ERROR"
        THEN Throw("Error while parsing object, unexpected next character")
        ELSE With(ParseByType(nextType, p.s), LAMBDA r :
                 IF ~r.ok THEN r
                 ELSE IF SignedChar(peekNextNonSpaceCharacter(r.s).c) # EOF
                 THEN Throw("Error after reading a valid json object. Expected EOF")
                 ELSE Ok(r.val))))

\* simpleJSON::parseFromString
parseFromString(jsonString) == beginParseFromStream(StringStream(jsonString))

\* simpleJSON::parseFromFile: the file's bytes, or a file that cannot be opened
parseFromFile(file) ==
    IF file.exists THEN beginParseFromStream(StringStream(file.bytes))
    ELSE beginParseFromStream(FailedStream)

(***************************************************************************)
(* The operations of JSONObject.  Each yields Throw(msg) / ThrowStd(what), *)
(* Undefined, or Done(obj, ret): the object afterwards and what the call   *)
(* returns.                                                                *)
(***************************************************************************)
Done(o, ret) == [ok |-> TRUE, obj |-> o, ret |-> ret]

\* the call has undefined behaviour
Undefined == [ok |-> FALSE, exc |-> "undefined behaviour", msg |-> "undefined behaviour"]

\* a JSONArray whose std::vector has its end n elements before its begin:
\* what pop_back leaves of an empty vector when the process runs on
Underrun(n) == <<"JSONArray", <<>>, n>>

IsUnderrun(o) == Len(o) = 3

\* std::vector::size() of such a vector: end - begin as a size_t, 2^64 - n,
\* in decimal digits; 2^64 is 18446744073 * 10^9 + 709551616, and the low
\* nine digits borrow from the high ones when n is above 709551616
UnderrunSize(n) ==
    LET borrow == IF n <= 709551616 THEN 0 ELSE IF n <= 1709551616 THEN 1 ELSE 2
        low == IF borrow = 0 THEN 709551616 - n
               ELSE IF borrow = 1 THEN 1709551616 - n
               ELSE 2000000000 - (n - 709551616)
    IN <<1, 8, 4, 4, 6, 7, 4, 4, 0, 7, 3 - borrow>>
           \o Zeros(9 - Len(NatDigits(low))) \o NatDigits(low)

\* a faulty append: an object that holds no array is turned into one
appendConverting(o, arg) ==
    IF IsUnderrun(o) THEN Undefined
    ELSE IF Kind(o) = "JSONArray" THEN Done(JArray(Append(Val(o), arg)), "void")
    ELSE Done(JArray(<<arg>>), "void")

\* JSONObject::append -> JSONArray::append: std::vector::emplace_back, which
\* writes outside the storage of a vector whose end is before its begin
append(o, arg) ==
    IF IsUnderrun(o) THEN Undefined
    ELSE IF Kind(o) = "JSONArray" THEN Done(JArray(Append(Val(o), arg)), "void")
    ELSE Throw("Cannot append. Current object is not an array")
\* a faulty pop: the first element is removed
popFront(o) ==
    IF Kind(o) = "JSONArray"
    THEN IF Len(Val(o)) = 0 \/ IsUnderrun(o) THEN Undefined
         ELSE Done(JArray(SubSeq(Val(o), 2, Len(Val(o)))), "void")
    ELSE Throw("Cannot pop. Current JSONObject does not hold an array")

\* JSONObject::pop -> JSONArray::pop: std::vector::pop_back, undefined when empty
pop(o) ==
    IF Kind(o) = "JSONArray"
    THEN IF Len(Val(o)) = 0 \/ IsUnderrun(o) THEN Undefined
         ELSE Done(JArray(SubSeq(Val(o), 1, Len(Val(o)) - 1)), "void")
    ELSE Throw("Cannot pop. Current JSONObject does not hold an array")
\* a faulty removeField: with an absent key the first entry is erased
removeFieldOrFirst(o, key) ==
    IF Kind(o) = "JSONMap"
    THEN LET it == MapFind(Val(o), key)
         IN IF it # 0 THEN Done(JMap(MapErase(Val(o), it)), "void")
            ELSE IF Val(o) # <<>> THEN Done(JMap(MapErase(Val(o), 1)), "void")
            ELSE Done(o, "void")
    ELSE Throw("Removing field failed, this JSONObject is not a map")

\* JSONObject::removeField -> JSONMap::removeField
removeField(o, key) ==
    IF Kind(o) = "JSONMap"
    THEN LET it == MapFind(Val(o), key)
         IN IF it # 0 THEN Done(JMap(MapErase(Val(o), it)), "void") ELSE Done(o, "void")
    ELSE Throw("Removing field failed, this JSONObject is not a map")

\* a faulty size: 0 for an object that holds neither an array nor a map
sizeOfAnything(o) ==
    IF IsUnderrun(o) THEN Done(o, UnderrunSize(o[3]))
    ELSE IF Kind(o) = "JSONArray" THEN Done(o, Len(Val(o)))
    ELSE IF Kind(o) = "JSONMap" THEN Done(o, Len(Val(o)))
    ELSE Done(o, 0)

\* JSONObject::size
size(o) ==
    IF IsUnderrun(o) THEN Done(o, UnderrunSize(o[3]))
    ELSE IF Kind(o) = "JSONArray" THEN Done(o, Len(Val(o)))
    ELSE IF Kind(o) = "JSONMap" THEN Done(o, Len(Val(o)))
    ELSE Throw("Current JSONObject is not an array or map, cannot call size()")

\* JSONObject::clear: std::vector::clear destroys the elements from begin to
\* end, which a vector whose end is before its begin does not have
clear(o) ==
    IF IsUnderrun(o) THEN Undefined
    ELSE IF Kind(o) = "JSONArray" THEN Done(JArray(<<>>), "void")
    ELSE IF Kind(o) = "JSONMap" THEN Done(JMap(<<>>), "void")
    ELSE Throw("Current JSONObject is not an array or map, cannot call clear()")

\* JSONObject::operator[](size_t) -> JSONArray::operator[]; index counts from 0
\* (no index is out of the range of a vector whose end is before its begin:
\* the element returned is not one of the vector)
IndexMutable(o, index) ==
    IF IsUnderrun(o) THEN Undefined
    ELSE IF Kind(o) = "JSONArray"
    THEN IF index >= Len(Val(o)) THEN Throw("JSONArray operator[] index out of range")
         ELSE Done(o, Val(o)[index + 1])
    ELSE Throw("Operator[] failed, this JSONObject is not an array")

\* JSONObject::operator[](size_t) const -> JSONArray::operator[] const
IndexConst(o, index) ==
    IF IsUnderrun(o) THEN Undefined
    ELSE IF Kind(o) = "JSONArray"
    THEN IF index >= Len(Val(o)) THEN Throw("JSONArray operator[] index out of range")
         ELSE Done(o, Val(o)[index + 1])
    ELSE Throw("Operator[] failed, this JSONObject is not an array")
\* a faulty mutable subscript: an absent key is looked up as std::map::at does
KeyMutableAt(o, key) ==
    IF Kind(o) = "JSONMap"
    THEN IF MapFind(Val(o), key) = 0 THEN ThrowStd("std::out_of_range")
         ELSE Done(o, Val(o)[MapFind(Val(o), key)].value)
    ELSE Throw("Operator[] failed, this JSONObject is not a map")

\* JSONObject::operator[](const JSONString&) -> JSONMap::operator[]:
\* std::map::operator[] inserts a default JSONObject under an absent key
KeyMutable(o, key) ==
    IF Kind(o) = "JSONMap"
    THEN LET m == MapInsert(Val(o), key, DefaultObject)
         IN Done(JMap(m), m[MapFind(m, key)].value)
    ELSE Throw("Operator[] failed, this JSONObject is not a map")

\* JSONObject::operator[](const JSONString&) const -> JSONMap::operator[] const:
\* std::map::at throws std::out_of_range for an absent key
KeyConst(o, key) ==
    IF Kind(o) = "JSONMap"
    THEN IF MapFind(Val(o), key) = 0 THEN ThrowStd("std::out_of_range")
         ELSE Done(o, Val(o)[MapFind(Val(o), key)].value)
    ELSE Throw("Operator[] failed, this JSONObject is not a map")

\* obj[index] = arg
IndexAssign(o, index, arg) ==
    LET r == IndexMutable(o, index)
    IN IF r.ok THEN Done(JArray([Val(o) EXCEPT ![index + 1] = arg]), "void") ELSE r

\* obj[key] = arg
KeyAssign(o, key, arg) ==
    LET r == KeyMutable(o, key)
    IN IF r.ok THEN Done(JMap(MapAssign(Val(r.obj), key, arg)), "void") ELSE r

(***************************************************************************)
(* Sub-objects.  A path is the chain of subscripts that leads from the     *)
(* object to one of its sub-objects: obj[s1][s2]...; a step is an index    *)
(* into an array or a key of a map.                                        *)
(***************************************************************************)
IdxStep(i) == [t |-> "index", at |-> <<i>>]

KeyStep(k) == [t |-> "key", at |-> k]

IsContainer(o) == Kind(o) \in {"JSONArray", "JSONMap"}

\* the sub-object one subscript below o
Child(o, step) ==
    IF step.t = "index" THEN Val(o)[step.at[1] + 1]
    ELSE Val(o)[MapFind(Val(o), step.at)].value

\* the subscripts that lead to the children of o
Steps(o) ==
    IF Kind(o) = "JSONArray" THEN {IdxStep(i - 1) : i \in 1..Len(Val(o))}
    ELSE IF Kind(o) = "JSONMap" THEN {KeyStep(Val(o)[i].key) : i \in 1..Len(Val(o))}
    ELSE {}

RECURSIVE Paths(_)
Paths(o) ==
    {<<>>} \cup UNION {{<<st>> \o p : p \in Paths(Child(o, st))} : st \in Steps(o)}

RECURSIVE GetAt(_, _)
GetAt(o, path) ==
    IF path = <<>> THEN o ELSE GetAt(Child(o, Head(path)), Tail(path))

\* o with the sub-object at path replaced by sub
RECURSIVE SetAt(_, _, _)
SetAt(o, path, sub) ==
    IF path = <<>> THEN sub
    ELSE LET st == Head(path)
             i == IF st.t = "index" THEN st.at[1] + 1 ELSE MapFind(Val(o), st.at)
         IN IF st.t = "index"
            THEN <<Kind(o), [Val(o) EXCEPT ![i] = SetAt(Val(o)[i], Tail(path), sub)]>>
            ELSE <<Kind(o), [Val(o) EXCEPT ![i].value = SetAt(Val(o)[i].value, Tail(path), sub)]>>

(***************************************************************************)
(* The program state.                                                      *)
(*   obj   the JSONObject the caller holds                                 *)
(*   last  the last call made on obj (or on one of its sub-objects): its   *)
(*         name, the variant the sub-object held, the argument and the     *)
(*         outcome                                                         *)
(*   io    the texts and parse outcomes of a dump / parse pipeline         *)
(*   cmp   two JSONNumber operands, the operator applied and its result    *)
(***************************************************************************)
VARIABLES obj, last, io, cmp

vars == <<obj, last, io, cmp>>

\* bound: the longest literal list a container is built from, and the
\* largest index used
MaxLen == 2

\* bound: the most sub-objects (the object itself included) an object is
\* grown to
MaxNodes == 3

\* the state of a process that died of undefined behaviour
Crashed == <<"crashed", "crashed">>

\* some array in o has its end before its begin
RECURSIVE HasUnderrun(_)
HasUnderrun(o) ==
    \/ IsUnderrun(o)
    \/ Kind(o) = "JSONArray" /\ \E i \in 1..Len(Val(o)) : HasUnderrun(Val(o)[i])
    \/ Kind(o) = "JSONMap" /\ \E i \in 1..Len(Val(o)) : HasUnderrun(Val(o)[i].value)

\* the number of arrays in o whose end is before their begin
Underruns(o) ==
    IF HasUnderrun(o) THEN Cardinality({p \in Paths(o) : IsUnderrun(GetAt(o, p))}) ELSE 0

\* an object whose bytes have been written over by a store outside the
\* storage of an array: it stands for whatever those bytes make
Overwritten == <<"overwritten", "overwritten">>

\* the process runs, no array of o has its end before its begin, and o has
\* not been written over
Intact(o) == o # Crashed /\ o # Overwritten /\ ~HasUnderrun(o)

\* the outcome r of a call on the object o; a call on an object that has been
\* written over, and a call that destroys an array whose end is before its
\* begin (it is cleared away, erased, popped or assigned over), have
\* undefined behaviour
Destroying(o, r) ==
    IF o = Overwritten THEN Undefined
    ELSE IF r.ok /\ HasUnderrun(o) /\ Underruns(r.obj) < Underruns(o) THEN Undefined
    ELSE r

\* the calls that store through the array they are made on: pop_back
\* destroys the element below the end, emplace_back constructs one at the
\* end, the assignment writes the element at the index
Stores == {"pop", "append", "operator[](size_t) ="}

\* the states the call name with undefined behaviour leaves the array o in
\* when it returns: pop_back moves the end one element down; emplace_back
\* writes the element before the storage and moves the end one element up;
\* operator[] leaves the vector alone.  There is none when the call walks
\* from the begin up to an end that is below it (clear, the destructor):
\* that call does not return
Wreck(name, o) ==
    IF o = Overwritten THEN {o}
    ELSE IF name = "pop" /\ IsUnderrun(o)
    THEN {Underrun(o[3] + 1)}
    ELSE IF name = "pop" /\ o = JArray(<<>>) THEN {Underrun(1)}
    ELSE IF name = "append" /\ IsUnderrun(o)
    THEN {IF o[3] = 1 THEN JArray(<<>>) ELSE Underrun(o[3] - 1)}
    ELSE IF name \in {"operator[](size_t)", "operator[](size_t) const", "operator[](size_t) ="}
            /\ IsUnderrun(o)
    THEN {o}
    ELSE {}

\* the number of elements the ends of the arrays of o are before their begins
UnderrunDepth(o) ==
    IF ~HasUnderrun(o) THEN 0
    ELSE LET under == {p \in Paths(o) : IsUnderrun(GetAt(o, p))}
         IN Cardinality({<<p, k>> \in under \X (1..MaxNodes) : k <= GetAt(o, p)[3]})

\* the objects that are explored: at most MaxNodes nodes, an element that the
\* end of an array is before its begin counting as a node
Fits(o) == Cardinality(Paths(o)) + UnderrunDepth(o) <= MaxNodes

\* the object o as the call name with undefined behaviour on its sub-object
\* at path leaves it when the call returns and has stored nowhere else
Wrecked(name, o, path) == {SetAt(o, path, w) : w \in Wreck(name, GetAt(o, path))}

\* what a call with undefined behaviour may make of an object other than
\* through the vector it is made on: a call that stores may have written
\* over it
Stray(name, o) == IF name \in Stores THEN {o, Overwritten} ELSE {o}

Keys == {Txt(<<"a">>), Txt(<<"b">>)}

\* the values a caller stores into containers
ElemAtoms == {JInt(IntOf(1)), JString(Txt(<<"a">>))}

\* the values a caller constructs a JSONObject from
Scalars ==
    ElemAtoms \cup {JFloat(MkFloat(FALSE, <<5>>, 0 - 1)), JBool(TRUE), JNull}

Elems == ElemAtoms \cup {JArray(<<>>), DefaultObject}

Indexes == 0..MaxLen

\* the sequences over S of length lo..hi
SeqsOf(S, lo, hi) == UNION {[1..n -> S] : n \in lo..hi}

NoIO == [done |-> {}]

NoCmp == [op |-> "none"]

NoCall ==
    [op |-> "none", kind |-> "none", arg |-> <<"none", "none">>,
     res |-> Ok(<<"none", "void">>)]

\* the record of a call with outcome r on the sub-object at path: its name,
\* the variant that sub-object held when called, the argument where a claim
\* reads it, and what the call returned or threw; the argument and the
\* returned value are paired with the operation's name, whose signature
\* fixes their types
Call(name, path, arg, r) ==
    [op |-> name, kind |-> Kind(GetAt(obj, path)), arg |-> <<name, arg>>,
     res |-> IF r.ok THEN Ok(<<name, r.ret>>) ELSE r]

\* the call's effect on obj
Effect(path, r) == IF r.ok THEN SetAt(obj, path, r.obj) ELSE obj

\* the objects the call name with the outcome r on the sub-object at path
\* may leave: after undefined behaviour the process has died, or the call
\* has returned with the array at path wrecked and, when it stores, with
\* the object perhaps written over.  A call that would wreck the object
\* beyond the objects that are explored is not explored
After(name, path, r) ==
    IF ~r.ok /\ r.exc = Undefined.exc
    THEN IF \E x \in Wrecked(name, obj, path) : ~Fits(x) THEN {}
         ELSE {Crashed} \cup UNION {Stray(name, x) : x \in Wrecked(name, obj, path)}
    ELSE {Effect(path, r)}

Init ==
    /\ obj = DefaultObject
    /\ last = NoCall
    /\ io = NoIO
    /\ cmp = NoCmp

\* obj = JSONObject(v)
Construct(v) ==
    /\ obj # Crashed
    /\ LET r == Destroying(obj, Done(v, "void"))
       IN /\ obj' \in After("JSONObject", <<>>, r)
          /\ last' = Call("JSONObject", <<>>, "none", r)
    /\ UNCHANGED <<io, cmp>>

\* obj = JSONArray{list}
ConstructArray(list) ==
    /\ obj # Crashed
    /\ Fits(JArray(list))
    /\ LET r == Destroying(obj, Done(JArray(list), "void"))
       IN /\ obj' \in After("JSONArray", <<>>, r)
          /\ last' = Call("JSONArray", <<>>, "none", r)
    /\ UNCHANGED <<io, cmp>>

\* obj = JSONMap{list}
ConstructMap(list) ==
    /\ obj # Crashed
    /\ Fits(JMap(MapFromList(list)))
    /\ LET r == Destroying(obj, Done(JMap(MapFromList(list)), "void"))
       IN /\ obj' \in After("JSONMap", <<>>, r)
          /\ last' = Call("JSONMap", <<>>, list, r)
    /\ UNCHANGED <<io, cmp>>

CallAppend(path, arg) ==
    /\ obj # Crashed
    /\ LET r == Destroying(GetAt(obj, path), append(GetAt(obj, path), arg))
       IN /\ Fits(Effect(path, r))
          /\ obj' \in After("append", path, r)
          /\ last' = Call("append", path, "none", r)
    /\ UNCHANGED <<io, cmp>>

\* pop on an empty array is undefined
CallPop(path) ==
    /\ obj # Crashed
    /\ LET r == Destroying(GetAt(obj, path), pop(GetAt(obj, path)))
       IN /\ obj' \in After("pop", path, r)
          /\ last' = Call("pop", path, "none", r)
    /\ UNCHANGED <<io, cmp>>

CallRemoveField(path, key) ==
    /\ obj # Crashed
    /\ LET r == Destroying(GetAt(obj, path), removeField(GetAt(obj, path), key))
       IN /\ obj' \in After("removeField", path, r)
          /\ last' = Call("removeField", path, "none", r)
    /\ UNCHANGED <<io, cmp>>

CallSize(path) ==
    /\ obj # Crashed
    /\ LET r == Destroying(GetAt(obj, path), size(GetAt(obj, path)))
       IN /\ obj' \in After("size", path, r)
          /\ last' = Call("size", path, "none", r)
    /\ UNCHANGED <<io, cmp>>

CallClear(path) ==
    /\ obj # Crashed
    /\ LET r == Destroying(GetAt(obj, path), clear(GetAt(obj, path)))
       IN /\ obj' \in After("clear", path, r)
          /\ last' = Call("clear", path, "none", r)
    /\ UNCHANGED <<io, cmp>>

CallIndex(path, index) ==
    /\ obj # Crashed
    /\ LET r == Destroying(GetAt(obj, path), IndexMutable(GetAt(obj, path), index))
       IN /\ obj' \in After("operator[](size_t)", path, r)
          /\ last' = Call("operator[](size_t)", path, "none", r)
    /\ UNCHANGED <<io, cmp>>

CallIndexConst(path, index) ==
    /\ obj # Crashed
    /\ LET r == Destroying(GetAt(obj, path), IndexConst(GetAt(obj, path), index))
       IN /\ obj' \in After("operator[](size_t) const", path, r)
          /\ last' = Call("operator[](size_t) const", path, "none", r)
    /\ UNCHANGED <<io, cmp>>

CallIndexAssign(path, index, arg) ==
    /\ obj # Crashed
    /\ LET r == Destroying(GetAt(obj, path), IndexAssign(GetAt(obj, path), index, arg))
       IN /\ Fits(Effect(path, r))
          /\ obj' \in After("operator[](size_t) =", path, r)
          /\ last' = Call("operator[](size_t) =", path, "none", r)
    /\ UNCHANGED <<io, cmp>>

CallKey(path, key) ==
    /\ obj # Crashed
    /\ LET r == Destroying(GetAt(obj, path), KeyMutable(GetAt(obj, path), key))
       IN /\ Fits(Effect(path, r))
          /\ obj' \in After("operator[](key)", path, r)
          /\ last' = Call("operator[](key)", path, "none", r)
    /\ UNCHANGED <<io, cmp>>

CallKeyConst(path, key) ==
    /\ obj # Crashed
    /\ LET r == Destroying(GetAt(obj, path), KeyConst(GetAt(obj, path), key))
       IN /\ obj' \in After("operator[](key) const", path, r)
          /\ last' = Call("operator[](key) const", path, "none", r)
    /\ UNCHANGED <<io, cmp>>

CallKeyAssign(path, key, arg) ==
    /\ obj # Crashed
    /\ LET r == Destroying(GetAt(obj, path), KeyAssign(GetAt(obj, path), key, arg))
       IN /\ Fits(Effect(path, r))
          /\ obj' \in After("operator[](key) =", path, r)
          /\ last' = Call("operator[](key) =", path, "none", r)
    /\ UNCHANGED <<io, cmp>>

Next ==
    \/ \E v \in Scalars \cup {JArray(<<>>), DefaultObject} : Construct(v)
    \/ \E list \in SeqsOf(ElemAtoms, 1, MaxLen) : ConstructArray(list)
    \/ \E list \in SeqsOf([key : Keys, value : ElemAtoms], 1, MaxLen) : ConstructMap(list)
    \/ \E path \in Paths(obj), arg \in Elems : CallAppend(path, arg)
    \/ \E path \in Paths(obj) : CallPop(path)
    \/ \E path \in Paths(obj), key \in Keys : CallRemoveField(path, key)
    \/ \E path \in Paths(obj) : CallSize(path)
    \/ \E path \in Paths(obj) : CallClear(path)
    \/ \E path \in Paths(obj), index \in Indexes : CallIndex(path, index)
    \/ \E path \in Paths(obj), index \in Indexes : CallIndexConst(path, index)
    \/ \E path \in Paths(obj), index \in Indexes, arg \in ElemAtoms : CallIndexAssign(path, index, arg)
    \/ \E path \in Paths(obj), key \in Keys : CallKey(path, key)
    \/ \E path \in Paths(obj), key \in Keys : CallKeyConst(path, key)
    \/ \E path \in Paths(obj), key \in Keys, arg \in ElemAtoms : CallKeyAssign(path, key, arg)

Spec == Init /\ [][Next]_vars

(***************************************************************************)
(* Properties of the calls on a JSONObject (Spec).  last' is the call a     *)
(* step makes, obj the object before it and obj' the object after it.      *)
(***************************************************************************)
\* the type-mismatch errors of the array operations
NotAnArray ==
    {Throw("Cannot append. Current object is not an array"),
     Throw("Cannot pop. Current JSONObject does not hold an array"),
     Throw("Operator[] failed, this JSONObject is not an array")}

\* the type-mismatch errors of the map operations
NotAMap ==
    {Throw("Removing field failed, this JSONObject is not a map"),
     Throw("Operator[] failed, this JSONObject is not a map")}

\* the type-mismatch errors of size() and clear()
NotAContainer ==
    {Throw("Current JSONObject is not an array or map, cannot call size()"),
     Throw("Current JSONObject is not an array or map, cannot call clear()")}

ArrayCalls ==
    {"append", "pop", "operator[](size_t)", "operator[](size_t) const", "operator[](size_t) ="}

MapCalls ==
    {"removeField", "operator[](key)", "operator[](key) const", "operator[](key) ="}

\* C5: append, pop and indexed access (mutable and const) on an object that
\* does not hold an array throw the type-mismatch JSONException, and the whole
\* object is afterwards what it was before the call (it is not turned into an
\* array), in an object no array of which has been popped while empty and
\* that has not been written over.
C5_ArrayKindGuard ==
    [][(Intact(obj) /\ last'.op \in ArrayCalls /\ last'.kind # "JSONArray")
          => (last'.res \in NotAnArray /\ obj' = obj)]_vars

\* C5 happens: pop was called on an object holding a string and threw
C5_Witness ==
    /\ last.op = "pop"
    /\ last.kind = "JSONString"
    /\ last.res \in NotAnArray
    /\ Kind(obj) = "JSONString"

\* C6: keyed access (mutable and const) and removeField on an object that does
\* not hold a map throw the type-mismatch JSONException; size and clear succeed
\* exactly when the object holds an array or a map and throw the type-mismatch
\* JSONException otherwise; after each of these failures the whole object is
\* what it was before the call (in an object no array of which has been
\* popped while empty and that has not been written over).
C6_MapKindGuard ==
    [][Intact(obj)
          => /\ (last'.op \in MapCalls /\ last'.kind # "JSONMap")
                   => (last'.res \in NotAMap /\ obj' = obj)
             /\ last'.op \in {"size", "clear"}
                   => /\ last'.res.ok <=> last'.kind \in {"JSONArray", "JSONMap"}
                      /\ ~last'.res.ok => (last'.res \in NotAContainer /\ obj' = obj)]_vars

\* C6 happens: size was called on an object holding null and threw
C6_Witness ==
    /\ last.op = "size"
    /\ last.kind = "JSONNull"
    /\ last.res \in NotAContainer
    /\ obj = JNull

\* the value the last pair of list with this key carries
LastValueOf(list, key) ==
    list[CHOOSE i \in 1..Len(list) :
            /\ list[i].key = key
            /\ \A j \in (i + 1)..Len(list) : list[j].key # key].value

\* C10: a map built from a literal that repeats a key holds, under each key, the
\* value of the last pair with that key, and its size is the number of distinct
\* keys of the literal.
C10_LiteralLastWins ==
    last.op = "JSONMap"
        => LET list == last.arg[2]
           IN /\ Len(Val(obj)) = Cardinality({list[i].key : i \in 1..Len(list)})
              /\ \A i \in 1..Len(list) :
                    KeyConst(obj, list[i].key).ret = LastValueOf(list, list[i].key)

(***************************************************************************)
(* The dump / parse pipeline.  It starts from a value the caller built     *)
(* (obj) or from a text (io.text) that is parsed into obj; obj is dumped   *)
(* compactly and with an indent string, each dump is parsed again, and the *)
(* value parsed from the compact dump is dumped once more.  io.done names  *)
(* the steps taken so far.                                                 *)
(***************************************************************************)
NotRun == [ok |-> FALSE, exc |-> "none", msg |-> "not run"]

IOStart(src, text) ==
    [src |-> src, text |-> text, done |-> {}, parsed |-> NotRun,
     str |-> <<>>, pretty |-> <<>>, indent |-> <<>>,
     parsedStr |-> NotRun, parsedPretty |-> NotRun, redump |-> <<>>]

\* 2^-7, exact in a long double, with more than six decimals
Float2Pow7 == MkFloat(FALSE, <<7, 8, 1, 2, 5>>, 0 - 7)

\* the scalars the pipeline is started from
IOAtoms ==
    {JString(Txt(<<"a">>)), JString(Txt(<<"a", "\"", "b">>)), JInt(IntOf(0 - 12)),
     JFloat(MkFloat(FALSE, <<5>>, 0 - 1)), JFloat(Float2Pow7), JBool(FALSE), JNull}

\* arrays and maps of at most MaxLen scalars
IOFlat ==
    {JArray(l) : l \in SeqsOf(IOAtoms, 0, MaxLen)}
    \cup {JMap(MapFromList(l)) : l \in SeqsOf([key : Keys, value : IOAtoms], 0, MaxLen)}

\* a container around each of S
IOWrap(S) ==
    {JArray(<<v>>) : v \in S}
    \cup {JMap(<<[key |-> k, value |-> v]>>) : k \in Keys, v \in S}

\* the values the pipeline is started from
IOValues == IOAtoms \cup IOFlat \cup IOWrap(IOFlat)

\* the texts the pipeline is started from
IOTexts ==
    {Txt(<<"1", "e", "5", "0", "0", "0">>),
     Txt(<<"-", "1", "e", "5", "0", "0", "0">>),
     Txt(<<"1", ".", "5">>),
     Txt(<<"-", "0">>),
     Txt(<<"0", "0", ".", "5">>),
     Txt(<<"1", "E", "2">>),
     Txt(<<" ", "t", "r", "u", "e", "\n">>),
     Txt(<<"n", "u", "l">>),
     Txt(<<"\"", "a", "\\", "\"", "b", "\"">>),
     Txt(<<"\"", "\\", "u", "0", "0", "e", "9", "\"">>),
     Txt(<<"[", "]">>),
     Txt(<<"{", " ", "}">>),
     Txt(<<"[", "1", ",", " ", "[", "2", "]", ",", "{", "}", "]">>),
     Txt(<<"[", "1", ",", "]">>),
     Txt(<<"{", "\"", "b", "\"", ":", "[", "1", ",", "{", "\"", "a", "\"", ":", "n", "u", "l", "l", "}", "]",
           ",", "\"", "a", "\"", ":", "\"", "x", "\"", "}">>),
     Txt(<<"{", "\"", "a", "\"", ":", "1", ",", "\"", "a", "\"", ":", "2", "}">>),
     Txt(<<"[", "1", "e", "5", "0", "0", "0", "]">>),
     Txt(<<"1", " ", "2">>),
     Txt(<<"[", "[", "1", "]", ",", "[", "2", ",", "[", "]", "]", ",", "{", "\"", "a", "\"", ":", "[", "3", "]", "}", "]">>),
     Txt(<<"{", "\"", "a", "\"", ":", "{", "\"", "a", "\"", ":", "[", "1", "]", "}", ",",
           "\"", "b", "\"", ":", "[", "[", "]", ",", "{", "}", "]", "}">>)}

\* the indent strings a caller passes to dumpToPrettyString
IndentStrings ==
    {defaultIndentString, Txt(<<" ", " ">>), <<>>, Txt(<<"x">>)}

\* obj holds the value at the head of the pipeline
HaveValue == io.src = "value" \/ ("parse" \in io.done /\ io.parsed.ok)

InitIO ==
    /\ last = NoCall
    /\ cmp = NoCmp
    /\ \/ /\ obj \in IOValues
          /\ io = IOStart("value", <<>>)
       \/ /\ obj = DefaultObject
          /\ io \in {IOStart("text", t) : t \in IOTexts}

\* obj = parseFromString(text)
ParseText ==
    /\ io.src = "text"
    /\ "parse" \notin io.done
    /\ LET r == parseFromString(io.text)
       IN /\ obj' = IF r.ok THEN r.val ELSE obj
          /\ io' = [io EXCEPT !.done = @ \cup {"parse"},
                              !.parsed = IF r.ok THEN Ok("void") ELSE r]
    /\ UNCHANGED <<last, cmp>>

\* str = dumpToString(obj)
DumpToString ==
    /\ HaveValue
    /\ "str" \notin io.done
    /\ io' = [io EXCEPT !.done = @ \cup {"str"}, !.str = dumpToString(obj)]
    /\ UNCHANGED <<obj, last, cmp>>

\* pretty = dumpToPrettyString(obj, indentString)
DumpToPrettyString(indentString) ==
    /\ HaveValue
    /\ "pretty" \notin io.done
    /\ io' = [io EXCEPT !.done = @ \cup {"pretty"}, !.indent = indentString,
                        !.pretty = dumpToPrettyString(obj, indentString)]
    /\ UNCHANGED <<obj, last, cmp>>

\* parsedStr = parseFromString(str)
ParseStr ==
    /\ "str" \in io.done
    /\ "parsedStr" \notin io.done
    /\ io' = [io EXCEPT !.done = @ \cup {"parsedStr"}, !.parsedStr = parseFromString(io.str)]
    /\ UNCHANGED <<obj, last, cmp>>

\* parsedPretty = parseFromString(pretty)
ParsePretty ==
    /\ "pretty" \in io.done
    /\ "parsedPretty" \notin io.done
    /\ io' = [io EXCEPT !.done = @ \cup {"parsedPretty"},
                        !.parsedPretty = parseFromString(io.pretty)]
    /\ UNCHANGED <<obj, last, cmp>>

\* redump = dumpToString(parsedStr)
Redump ==
    /\ "parsedStr" \in io.done
    /\ io.parsedStr.ok
    /\ "redump" \notin io.done
    /\ io' = [io EXCEPT !.done = @ \cup {"redump"}, !.redump = dumpToString(io.parsedStr.val)]
    /\ UNCHANGED <<obj, last, cmp>>

NextIO ==
    \/ ParseText
    \/ DumpToString
    \/ \E indentString \in IndentStrings : DumpToPrettyString(indentString)
    \/ ParseStr
    \/ ParsePretty
    \/ Redump

SpecIO == InitIO /\ [][NextIO]_vars

(***************************************************************************)
(* Properties of the dump / parse pipeline (SpecIO).                       *)
(***************************************************************************)
\* C1: once the compact dump of a value the caller built has been parsed, the
\* parse has succeeded and the value it returned is equal (operator==) to the
\* value that was dumped.
C1_CompactRoundTrip ==
    (io.src = "value" /\ "parsedStr" \in io.done)
        => (io.parsedStr.ok /\ ObjectEq(io.parsedStr.val, obj))

\* C2: once the indented dump of a value the caller built, made with any indent
\* string the caller chose, has been parsed, the parse has succeeded and the
\* value it returned is equal to the value that was dumped.
C2_IndentedRoundTrip ==
    (io.src = "value" /\ "parsedPretty" \in io.done)
        => (io.parsedPretty.ok /\ ObjectEq(io.parsedPretty.val, obj))

\* C3: for a value the caller built, the parse of its compact dump succeeds,
\* so that the second dump is produced, and the second dump is equal to the
\* first character by character.
C3_DumpIsFixedPoint ==
    io.src = "value"
        => /\ "parsedStr" \in io.done => io.parsedStr.ok
           /\ "redump" \in io.done => io.redump = io.str

\* C4: for a text the parser accepted, the compact dump and the dump indented
\* with the default indent string of the value it yielded are both accepted by
\* the parser, and the two values parsed from them are equal.
C4_DumpsParseAlike ==
    (io.src = "text" /\ io.parsed.ok)
        => /\ "parsedStr" \in io.done => io.parsedStr.ok
           /\ ("parsedPretty" \in io.done /\ io.indent = defaultIndentString)
                  => io.parsedPretty.ok
           /\ ({"parsedStr", "parsedPretty"} \subseteq io.done
                  /\ io.indent = defaultIndentString
                  /\ io.parsedStr.ok /\ io.parsedPretty.ok)
                  => ObjectEq(io.parsedStr.val, io.parsedPretty.val)

(***************************************************************************)
(* The comparison operators of JSONNumber.  cmp holds two operands, the    *)
(* operator last applied to them and what it returned.                     *)
(***************************************************************************)
\* bound: the integers compared are -MaxInt..MaxInt, the floating point values
\* the halves between them
MaxInt == 2

\* q/2 as a long double
Half(q) == MkFloat(q < 0, NatDigits((IF q < 0 THEN 0 - q ELSE q) * 5), 0 - 1)

CmpNumbers ==
    {NumInt(IntOf(i)) : i \in (0 - MaxInt)..MaxInt}
    \cup {NumFloat(Half(q)) : q \in (0 - 2 * MaxInt)..(2 * MaxInt)}
    \cup {NumFloat(MkFloat(TRUE, <<>>, 0))}

InitCmp ==
    /\ obj = DefaultObject
    /\ last = NoCall
    /\ io = NoIO
    /\ cmp \in [lhs : CmpNumbers, rhs : CmpNumbers, op : {"none"}, result : {FALSE}]

Compare(op, result) ==
    /\ cmp' = [cmp EXCEPT !.op = op, !.result = result]
    /\ UNCHANGED <<obj, last, io>>

\* lhs == rhs
CmpEq == Compare("==", NumberEq(cmp.lhs, cmp.rhs))

\* lhs != rhs
CmpNotEq == Compare("!=", NumberNotEq(cmp.lhs, cmp.rhs))

\* lhs < rhs
CmpLess == Compare("<", NumberLess(cmp.lhs, cmp.rhs))

\* lhs <= rhs
CmpLessEq == Compare("<=", NumberLessEq(cmp.lhs, cmp.rhs))

\* lhs > rhs
CmpGreater == Compare(">", NumberGreater(cmp.lhs, cmp.rhs))

\* lhs >= rhs
CmpGreaterEq == Compare(">=", NumberGreaterEq(cmp.lhs, cmp.rhs))

NextCmp ==
    \/ CmpEq
    \/ CmpNotEq
    \/ CmpLess
    \/ CmpLessEq
    \/ CmpGreater
    \/ CmpGreaterEq

SpecCmp == InitCmp /\ [][NextCmp]_vars

(***************************************************************************)
(* Properties of the comparison operators (SpecCmp).  The operands are     *)
(* small multiples of 1/2, which long long and long double hold exactly,   *)
(* so the conversion of an integer to floating point keeps its value and   *)
(* the order asked for is the order of the numbers themselves.             *)
(***************************************************************************)
\* ten times the value of a number, as an integer
TenTimes(n) ==
    (IF n.num.neg THEN 0 - 1 ELSE 1)
    * (IF n.alt = "JSONInteger" THEN 10 * DigitsToNat(n.num.digits)
       ELSE DigitsToNat(FloatScaledDigits(n.num)) \div 100000)

\* C7: lhs < rhs is true exactly when the value of lhs, converted to floating
\* point if it is an integer and the other operand is not, is less than the
\* value of rhs converted likewise; operands of the same kind compare directly.
C7_LessWidens ==
    cmp.op = "<" => (cmp.result <=> TenTimes(cmp.lhs) < TenTimes(cmp.rhs))

\* C7 happens: an integer was found less than a floating point value, and a
\* floating point value less than an integer
C7_Witness ==
    /\ cmp.op = "<"
    /\ cmp.lhs.alt = "JSONInteger"
    /\ cmp.rhs.alt = "JSONFloating"
    /\ cmp.result

\* C8: >, <= and >= follow the same widening rule: each is true exactly when
\* the values, the integer operand converted to floating point, stand in that
\* order, also when the converted integer equals the floating point operand.
C8_OrderWidens ==
    /\ cmp.op = ">" => (cmp.result <=> TenTimes(cmp.lhs) > TenTimes(cmp.rhs))
    /\ cmp.op = "<=" => (cmp.result <=> TenTimes(cmp.lhs) <= TenTimes(cmp.rhs))
    /\ cmp.op = ">=" => (cmp.result <=> TenTimes(cmp.lhs) >= TenTimes(cmp.rhs))

\* C9: two numbers of the same kind are equal exactly when their values are
\* equal, and an integer and a floating point number are equal exactly when the
\* integer converted to floating point equals the floating point value.
C9_EqualityWidens ==
    cmp.op = "==" => (cmp.result <=> TenTimes(cmp.lhs) = TenTimes(cmp.rhs))


(***************************************************************************)
(* Parsing texts.  A source is a string handed to parseFromString or a     *)
(* file handed to parseFromFile; io holds the source and the outcome.       *)
(***************************************************************************)
\* bound: the length of the texts that are enumerated symbol by symbol
MaxText == 4

\* a source of the given family: where it comes from ("text" for a string,
\* "file" for a file that can be read, "nofile" for one that cannot be
\* opened), its bytes, and what the family records about how it was written
ParseStart(family, src, text, about) ==
    [family |-> family, src |-> src, text |-> text, about |-> about,
     done |-> {}, parsed |-> NotRun]

\* "key":value
MemberText(m) == <<34>> \o m.key \o <<34, 58>> \o toString(m.value)

RECURSIVE MembersText(_)
MembersText(list) ==
    IF Len(list) = 1 THEN MemberText(list[1])
    ELSE MemberText(list[1]) \o <<44>> \o MembersText(Tail(list))

\* the object text {"k1":v1,"k2":v2,...} written from a member list
ObjectText(list) == <<123>> \o MembersText(list) \o <<125>>

\* member lists in which keys repeat
MemberLists == SeqsOf([key : Keys, value : ElemAtoms], 1, MaxLen + 1)

DupSources == {ParseStart("dup", "text", ObjectText(l), l) : l \in MemberLists}

\* JSON whitespace: space, line feed, carriage return, horizontal tab
Whitespace == {32, 10, 13, 9}

\* a value followed by a tail: spaces, a line feed, a form feed, the digit 4,
\* the letter x and the byte 0xFF
TrailValues ==
    {Txt(<<"1", "2", "3">>), Txt(<<"t", "r", "u", "e">>), Txt(<<"n", "u", "l", "l">>),
     Txt(<<"\"", "a", "\"">>), Txt(<<"[", "1", "]">>), Txt(<<"{", "}">>)}

TrailSymbols == {32, 10, 12, 52, 120, 255}

\* the tails that do not continue the value: a number is not followed at once
\* by a character of a number
TrailSources ==
    UNION {{ParseStart("trail", "text", v \o t, t) :
               t \in {u \in SeqsOf(TrailSymbols, 0, MaxText - 1) :
                         u = <<>> \/ ~(IsDigit(v[1]) /\ IsDigit(u[1]))}} :
           v \in TrailValues}

\* sources with nothing but whitespace in them, and a file that is not there
EmptySources ==
    {ParseStart("empty", src, t, <<>>) :
        src \in {"text", "file"}, t \in SeqsOf(Whitespace, 0, MaxText - 1)}
    \cup {ParseStart("empty", "nofile", <<>>, <<>>)}

(***************************************************************************)
(* The JSON grammar the parse functions are measured against, written as   *)
(* recognisers: each yields the position after the construct that starts   *)
(* at position i of the text t, or 0 when no such construct starts there.  *)
(*   ws      = *( space / LF / CR / HT )                                   *)
(*   value   = string / number / array / object / true / false / null      *)
(*   array   = "[" ws [ value ws *( "," ws value ws ) ] "]"                *)
(*   object  = "{" ws [ member ws *( "," ws member ws ) ] "}"              *)
(*   member  = string ws ":" ws value                                      *)
(*   number  = [ "-" ] int [ frac ] [ exp ]                                *)
(*   string  = '"' *( char / escape ) '"'                                  *)
(***************************************************************************)
\* the byte at position i, or 256 past the end of the text
RefAt(t, i) == IF i >= 1 /\ i <= Len(t) THEN t[i] ELSE 256

RECURSIVE RefSkipWs(_, _)
RefSkipWs(t, i) == IF RefAt(t, i) \in Whitespace THEN RefSkipWs(t, i + 1) ELSE i

RECURSIVE RefDigitsEnd(_, _)
RefDigitsEnd(t, i) == IF RefAt(t, i) \in 48..57 THEN RefDigitsEnd(t, i + 1) ELSE i

RefHex(c) == c \in (48..57) \cup (65..70) \cup (97..102)

\* the characters that may follow a backslash, \u aside: " \ / b f n r t
RefEscapes == {34, 92, 47, 98, 102, 110, 114, 116}

\* the rest of a string whose opening quote has been passed
RECURSIVE RefStringBody(_, _)
RefStringBody(t, j) ==
    With(RefAt(t, j), LAMBDA c :
        IF c = 256 THEN 0
        ELSE IF c = 34 THEN j + 1
        ELSE IF c <= 31 THEN 0
        ELSE IF c # 92 THEN RefStringBody(t, j + 1)
        ELSE IF RefAt(t, j + 1) \in RefEscapes THEN RefStringBody(t, j + 2)
        ELSE IF RefAt(t, j + 1) = 117 /\ \A k \in 2..5 : RefHex(RefAt(t, j + k))
        THEN RefStringBody(t, j + 6)
        ELSE 0)

RefStringEnd(t, i) == IF RefAt(t, i) = 34 THEN RefStringBody(t, i + 1) ELSE 0

\* int = "0" / ( digit1-9 *digit )
RefIntEnd(t, i) ==
    IF RefAt(t, i) = 48 THEN i + 1
    ELSE IF RefAt(t, i) \in 49..57 THEN RefDigitsEnd(t, i)
    ELSE 0

\* [ frac ], frac = "." 1*digit
RefFracEnd(t, i) ==
    IF i = 0 THEN 0
    ELSE IF RefAt(t, i) # 46 THEN i
    ELSE IF RefDigitsEnd(t, i + 1) > i + 1 THEN RefDigitsEnd(t, i + 1)
    ELSE 0

\* [ exp ], exp = ( "e" / "E" ) [ "-" / "+" ] 1*digit
RefExpEnd(t, i) ==
    IF i = 0 THEN 0
    ELSE IF RefAt(t, i) \notin {101, 69} THEN i
    ELSE With(IF RefAt(t, i + 1) \in {43, 45} THEN i + 2 ELSE i + 1, LAMBDA j :
            IF RefDigitsEnd(t, j) > j THEN RefDigitsEnd(t, j) ELSE 0)

\* the whole of lexeme is a number
RefNumberLexeme(lexeme) ==
    RefExpEnd(lexeme, RefFracEnd(lexeme,
        RefIntEnd(lexeme, IF RefAt(lexeme, 1) = 45 THEN 2 ELSE 1))) = Len(lexeme) + 1

\* the characters a number token is made of: digits . - + e E
RefNumberChars == (48..57) \cup {46, 45, 43, 101, 69}

RECURSIVE RefNumberRunEnd(_, _)
RefNumberRunEnd(t, i) ==
    IF RefAt(t, i) \in RefNumberChars THEN RefNumberRunEnd(t, i + 1) ELSE i

\* a number token is the longest run of number characters
RefNumberEnd(t, i) ==
    With(RefNumberRunEnd(t, i), LAMBDA j :
        IF j > i /\ RefNumberLexeme(SubSeq(t, i, j - 1)) THEN j ELSE 0)

RefLiteralEnd(t, i) ==
    IF i + 3 <= Len(t)
       /\ SubSeq(t, i, i + 3) \in {Txt(<<"t", "r", "u", "e">>), Txt(<<"n", "u", "l", "l">>)}
    THEN i + 4
    ELSE IF i + 4 <= Len(t) /\ SubSeq(t, i, i + 4) = Txt(<<"f", "a", "l", "s", "e">>)
    THEN i + 5
    ELSE 0

RECURSIVE RefValueEnd(_, _), RefElementsEnd(_, _), RefMembersEnd(_, _)

RefArrayEnd(t, i) ==
    IF RefAt(t, i) # 91 THEN 0
    ELSE With(RefSkipWs(t, i + 1), LAMBDA j :
            IF RefAt(t, j) = 93 THEN j + 1 ELSE RefElementsEnd(t, j))

RefObjectEnd(t, i) ==
    IF RefAt(t, i) # 123 THEN 0
    ELSE With(RefSkipWs(t, i + 1), LAMBDA j :
            IF RefAt(t, j) = 125 THEN j + 1 ELSE RefMembersEnd(t, j))

RefValueEnd(t, i) ==
    With(RefAt(t, i), LAMBDA c :
        IF c = 34 THEN RefStringEnd(t, i)
        ELSE IF c = 91 THEN RefArrayEnd(t, i)
        ELSE IF c = 123 THEN RefObjectEnd(t, i)
        ELSE IF c = 45 \/ c \in 48..57 THEN RefNumberEnd(t, i)
        ELSE IF c \in {116, 102, 110} THEN RefLiteralEnd(t, i)
        ELSE 0)

\* value ws *( "," ws value ws ) "]", from the first value on
RefElementsEnd(t, j) ==
    With(RefValueEnd(t, j), LAMBDA e :
        IF e = 0 THEN 0
        ELSE With(RefSkipWs(t, e), LAMBDA k :
                IF RefAt(t, k) = 93 THEN k + 1
                ELSE IF RefAt(t, k) = 44 THEN RefElementsEnd(t, RefSkipWs(t, k + 1))
                ELSE 0))

\* member ws *( "," ws member ws ) "}", from the first member on
RefMembersEnd(t, j) ==
    With(RefStringEnd(t, j), LAMBDA q :
        IF q = 0 THEN 0
        ELSE With(RefSkipWs(t, q), LAMBDA c :
                IF RefAt(t, c) # 58 THEN 0
                ELSE With(RefValueEnd(t, RefSkipWs(t, c + 1)), LAMBDA e :
                        IF e = 0 THEN 0
                        ELSE With(RefSkipWs(t, e), LAMBDA k :
                                IF RefAt(t, k) = 125 THEN k + 1
                                ELSE IF RefAt(t, k) = 44
                                THEN RefMembersEnd(t, RefSkipWs(t, k + 1))
                                ELSE 0))))

(***************************************************************************)
(* The texts handed to the parse functions, family by family.              *)
(***************************************************************************)
\* [ ] , 1 space and the byte 0xFF
ArraySymbols == {91, 93, 44, 49, 32, 255}

\* longer arrays: two commas between two elements, three elements, two
\* commas before the closing bracket
ArrayExtraTexts ==
    {Txt(<<"[", "1", ",", ",", "1", "]">>), Txt(<<"[", "1", ",", "1", ",", "1", "]">>),
     Txt(<<"[", "1", ",", "1", ",", ",", "]">>), Txt(<<"[", "1", " ", "1", ",", "1", "]">>)}

ArraySources ==
    {ParseStart("array", "text", t, <<>>) :
        t \in {<<91>> \o u : u \in SeqsOf(ArraySymbols, 0, MaxText)} \cup ArrayExtraTexts}

\* 0 1 . - + e
NumberSymbols == {48, 49, 46, 45, 43, 101}

\* lexemes with E, with the digits 2..9, and with a leading zero before a
\* fraction or an exponent
NumberExtraTexts ==
    {Txt(<<"1", "E", "1">>), Txt(<<"1", "E", "+", "1">>), Txt(<<"1", ".", "0", "E", "-", "1">>),
     Txt(<<"1", "E">>), Txt(<<"1", ".", "E", "1">>), Txt(<<"2", "9">>), Txt(<<"0", "9">>),
     Txt(<<"-", "0", "0", ".", "5">>), Txt(<<"-", "0", "1", "e", "1">>),
     Txt(<<"0", "0", "0", ".", "5">>), Txt(<<"-", "0", ".", "5", "e", "-", "1">>),
     Txt(<<"-", "2", ".", "5", "e", "1">>), Txt(<<"-", "2", "5">>)}

NumberSources ==
    {ParseStart("number", "text", t, <<>>) :
        t \in SeqsOf(NumberSymbols, 1, MaxText) \cup NumberExtraTexts}

\* " \ u 0 x and a line feed
StringSymbols == {34, 92, 117, 48, 120, 10}

\* after \u: the hexadecimal digit F, the letter g and "
UnicodeSymbols == {70, 103, 34}

Bytes == 0..255

StringSources ==
    {ParseStart("string", "text", t, <<>>) :
        t \in {<<34>> \o u : u \in SeqsOf(StringSymbols, 0, MaxText)}
              \cup {<<34, 92, 117>> \o u : u \in SeqsOf(UnicodeSymbols, 0, MaxText + 2)}
              \cup {<<34, 92, c, 34>> : c \in Bytes}
              \cup {<<34, c, 34>> : c \in Bytes}
              \cup {<<>>, <<120, 34>>, <<32, 34, 34>>, <<92, 34, 34>>}}

\* the texts of a sequence of tokens, one after the other
RECURSIVE Flatten(_)
Flatten(tokens) == IF tokens = <<>> THEN <<>> ELSE Head(tokens) \o Flatten(Tail(tokens))

\* } "" : , 1 and a space
ObjectTokens == {<<125>>, <<34, 34>>, <<58>>, <<44>>, <<49>>, <<32>>}

\* { } "" : , 1
NestedTokens == {<<123>>, <<125>>, <<34, 34>>, <<58>>, <<44>>, <<49>>}

ObjectSources ==
    {ParseStart("object", "text", t, <<>>) :
        t \in {<<123>> \o Flatten(ts) : ts \in SeqsOf(ObjectTokens, 0, MaxText)}
              \cup {<<123, 34, 34, 58>> \o Flatten(ts) : ts \in SeqsOf(NestedTokens, 0, MaxText)}
              \cup {<<123, 34, 34, 58, 49, 44>> \o Flatten(ts) : ts \in SeqsOf(NestedTokens, 0, MaxText)}
              \cup {<<123, 34, 34, 58, 49, 44, 34, 34, 58>> \o Flatten(ts) :
                        ts \in SeqsOf(NestedTokens, 0, MaxText)}}

\* documents as token sequences, whitespace to be put between the tokens
WsDocs ==
    {<<Txt(<<"[">>), Txt(<<"1">>), Txt(<<",">>), Txt(<<"\"", "a", "\"">>), Txt(<<"]">>)>>,
     <<Txt(<<"{">>), Txt(<<"\"", "a", "\"">>), Txt(<<":">>), Txt(<<"1">>), Txt(<<",">>),
       Txt(<<"\"", "b", "\"">>), Txt(<<":">>), Txt(<<"[">>), Txt(<<"]">>), Txt(<<"}">>)>>,
     <<Txt(<<"[">>), Txt(<<"{">>), Txt(<<"}">>), Txt(<<"]">>)>>,
     <<Txt(<<"n", "u", "l", "l">>)>>}

\* space, tab, carriage return, line feed, form feed and vertical tab
FillerSymbols == {32, 9, 13, 10, 12, 11}

\* a filler put into one gap of a document: before the first token, between
\* two tokens, or after the last
WsSources ==
    UNION {{ParseStart("ws", "text",
                       Flatten(SubSeq(d, 1, g)) \o f \o Flatten(SubSeq(d, g + 1, Len(d))),
                       [doc |-> Flatten(d), filler |-> f]) :
               g \in 0..Len(d), f \in SeqsOf(FillerSymbols, 1, MaxLen)} :
           d \in WsDocs}

\* integer lexemes around the bounds of the signed 64-bit range
BigIntSources ==
    {ParseStart("bigint", "text", t, <<>>) :
        t \in {Txt(<<"9","2","2","3","3","7","2","0","3","6","8","5","4","7","7","5","8","0","7">>),
               Txt(<<"9","2","2","3","3","7","2","0","3","6","8","5","4","7","7","5","8","0","8">>),
               Txt(<<"-","9","2","2","3","3","7","2","0","3","6","8","5","4","7","7","5","8","0","8">>),
               Txt(<<"-","9","2","2","3","3","7","2","0","3","6","8","5","4","7","7","5","8","0","9">>),
               Txt(<<"9","9","9","9","9","9","9","9","9","9","9","9","9","9","9","9","9","9","9","9">>),
               Txt(<<"1","0","0","0","0","0","0","0","0","0","0","0","0","0","0","0","0","0","0">>),
               Txt(<<"-","1","2","3">>)}}

\* texts with the byte 0xFF where the next token of the top level is looked
\* for: at the start, or after a value, with whitespace before it or not
EofLeads ==
    {<<>>, Txt(<<"1">>), Txt(<<"[", "1", "]">>), Txt(<<"\"", "a", "\"">>), Txt(<<"{", "}">>),
     Txt(<<"n", "u", "l", "l">>)}

EofSources ==
    {ParseStart("eof", "text", lead \o ws \o <<255>> \o rest, lead) :
        lead \in EofLeads,
        ws \in SeqsOf(Whitespace, 0, 1),
        rest \in SeqsOf({32, 49, 255}, 0, MaxText - 2)}

\* documents that open strings, arrays and objects
CutDocs ==
    {Txt(<<"[", "1", ",", "[", "\"", "a", "\"", "]", "]">>),
     Txt(<<"{", "\"", "a", "\"", ":", "{", "\"", "b", "\"", ":", "[", "1", "]", "}", "}">>),
     Txt(<<"\"", "a", "b", "c", "\"">>),
     Txt(<<"[", "{", "\"", "a", "\"", ":", "\"", "\\", "n", "\"", "}", ",", "1", "]">>)}

\* each document whole, and cut after each of its characters but the last
CutSources ==
    UNION {{ParseStart("cut", "text", SubSeq(d, 1, n), [doc |-> d]) : n \in 1..Len(d)} :
           d \in CutDocs}

\* the families whose texts go through parseFromString / parseFromFile
TopLevel == {"dup", "trail", "empty", "number", "ws", "bigint", "eof", "cut"}

InitParse ==
    /\ obj = DefaultObject
    /\ last = NoCall
    /\ cmp = NoCmp
    /\ \/ io \in DupSources
       \/ io \in TrailSources
       \/ io \in EmptySources
       \/ io \in ArraySources
       \/ io \in NumberSources
       \/ io \in StringSources
       \/ io \in ObjectSources
       \/ io \in WsSources
       \/ io \in BigIntSources
       \/ io \in EofSources
       \/ io \in CutSources

\* what a parse function made of the stream: where it left it, or the
\* exception it threw
Outcome(r) == IF r.ok THEN [ok |-> TRUE, pos |-> r.s.pos] ELSE r

\* obj = parseFromFile(file)
ParseFile ==
    /\ io.src \in {"file", "nofile"}
    /\ "parse" \notin io.done
    /\ LET r == parseFromFile([exists |-> io.src = "file", bytes |-> io.text])
       IN /\ obj' = IF r.ok THEN r.val ELSE obj
          /\ io' = [io EXCEPT !.done = @ \cup {"parse"},
                              !.parsed = IF r.ok THEN Ok("void") ELSE r]
    /\ UNCHANGED <<last, cmp>>

\* obj = internal::parseArray(stream)
ParseArrayText ==
    /\ io.family = "array"
    /\ "parse" \notin io.done
    /\ LET r == parseArray(StringStream(io.text))
       IN /\ obj' = IF r.ok THEN JArray(r.val) ELSE obj
          /\ io' = [io EXCEPT !.done = @ \cup {"parse"}, !.parsed = Outcome(r)]
    /\ UNCHANGED <<last, cmp>>

\* obj = internal::parseString(stream)
ParseStringText ==
    /\ io.family = "string"
    /\ "parse" \notin io.done
    /\ LET r == parseString(StringStream(io.text))
       IN /\ obj' = IF r.ok THEN JString(r.val) ELSE obj
          /\ io' = [io EXCEPT !.done = @ \cup {"parse"}, !.parsed = Outcome(r)]
    /\ UNCHANGED <<last, cmp>>

\* obj = internal::parseObject(stream)
ParseObjectText ==
    /\ io.family = "object"
    /\ "parse" \notin io.done
    /\ LET r == parseObject(StringStream(io.text))
       IN /\ obj' = IF r.ok THEN r.val ELSE obj
          /\ io' = [io EXCEPT !.done = @ \cup {"parse"}, !.parsed = Outcome(r)]
    /\ UNCHANGED <<last, cmp>>

\* obj = parseFromString(text)
ParseTopLevel == io.family \in TopLevel /\ ParseText

NextParse ==
    \/ ParseTopLevel
    \/ ParseFile
    \/ ParseArrayText
    \/ ParseStringText
    \/ ParseObjectText

SpecParse == InitParse /\ [][NextParse]_vars

\* the source has been parsed
ParsedFamily(family) == io.family = family /\ "parse" \in io.done

\* C11: an object text in which members repeat a key parses to an Object that
\* holds exactly one entry per distinct key, the entry of a repeated key holds
\* the value of the last member with that key, and size() counts each key
\* once.
C11_ParsedDuplicateLastWins ==
    ParsedFamily("dup")
        => /\ io.parsed.ok
           /\ Kind(obj) = "JSONMap"
           /\ LET list == io.about
                  keys == {list[i].key : i \in 1..Len(list)}
              IN /\ size(obj) = Done(obj, Cardinality(keys))
                 /\ \A k \in keys :
                       /\ Cardinality({j \in 1..Len(Val(obj)) : Val(obj)[j].key = k}) = 1
                       /\ KeyConst(obj, k) = Done(obj, LastValueOf(list, k))

\* a text with three members, the first and the last under one key with
\* different values, has been parsed and the key holds the last value
C11_Witness ==
    /\ ParsedFamily("dup")
    /\ Len(io.about) = 3
    /\ io.about[1].key = io.about[3].key
    /\ io.about[1].key # io.about[2].key
    /\ io.about[1].value # io.about[3].value
    /\ io.parsed.ok
    /\ Len(Val(obj)) = 2
    /\ KeyConst(obj, io.about[1].key).ret = io.about[3].value

ExpectedEOF == Throw("Error after reading a valid json object. Expected EOF")

\* C12: once the top-level value has been parsed, the parse succeeds exactly
\* when only whitespace remains up to the end of the text; any other remaining
\* character makes it fail with the expected-EOF error, and no value is
\* returned.
C12_TrailingContentRejected ==
    ParsedFamily("trail")
        => IF \A i \in 1..Len(io.about) : io.about[i] \in Whitespace
           THEN io.parsed.ok
           ELSE io.parsed = ExpectedEOF /\ obj = DefaultObject

\* C13: parseArray accepts a text exactly when it starts with an array of the
\* grammar, whose elements are separated by one comma each: a comma before
\* the first element, two commas in a row, two elements without a comma and a
\* comma before the closing bracket make it fail; on success the stream is
\* left right after the closing bracket.
C13_ArrayCommaDiscipline ==
    ParsedFamily("array")
        => /\ io.parsed.ok <=> RefArrayEnd(io.text, 1) # 0
           /\ io.parsed.ok => (io.parsed.pos = RefArrayEnd(io.text, 1) /\ Kind(obj) = "JSONArray")
           /\ io.text \in {Txt(<<"[", ",", "1", "]">>), Txt(<<"[", "1", ",", ",", "1", "]">>),
                           Txt(<<"[", "1", " ", "1", "]">>), Txt(<<"[", "1", ",", "]">>)}
                 => ~io.parsed.ok

\* the text [1,1] has been accepted as an array of two elements
C13_Witness ==
    /\ ParsedFamily("array")
    /\ io.text = Txt(<<"[", "1", ",", "1", "]">>)
    /\ io.parsed.ok
    /\ obj = JArray(<<JInt(IntOf(1)), JInt(IntOf(1))>>)

\* C14: a number text is accepted exactly when it matches
\* [ "-" ] int [ frac ] [ exp ], int being "0" or digits without a leading
\* zero; every other lexeme over digits . - + e E makes the parse fail.
C14_NumberGrammar ==
    ParsedFamily("number")
        => /\ io.parsed.ok <=> RefNumberLexeme(io.text)
           /\ io.parsed.ok => Kind(obj) = "JSONNumber"

\* C15: parseString accepts a text exactly when it is an opening quote, then
\* characters none of which is a raw control character (0..31), each
\* backslash followed by one of " \ / b f n r t or by u and four hexadecimal
\* digits, then a closing quote; the string ends at the first unescaped
\* quote, and a text that ends before it makes the parse fail.
C15_StringLexicalRules ==
    ParsedFamily("string")
        => /\ io.parsed.ok <=> RefStringEnd(io.text, 1) # 0
           /\ io.parsed.ok
                 => /\ io.parsed.pos = RefStringEnd(io.text, 1)
                    /\ obj = JString(SubSeq(io.text, 2, io.parsed.pos - 2))

\* the text of a quote, a backslash, u, FFFF and a quote has been accepted,
\* the six characters between the quotes being the value
C15_Witness ==
    /\ ParsedFamily("string")
    /\ io.text = <<34, 92, 117, 70, 70, 70, 70, 34>>
    /\ io.parsed.ok
    /\ obj = JString(<<92, 117, 70, 70, 70, 70>>)

\* C16: parseObject accepts a text exactly when it starts with an object of
\* the grammar: an opening brace, members separated by one comma each, a
\* closing brace, each member a string key, a colon and a value; a key that
\* is no string, a missing colon, a missing value, any character but a comma
\* or a closing brace after a member, and a comma before the closing brace
\* make it fail; on success the stream is left right after the closing brace.
C16_ObjectMemberGrammar ==
    ParsedFamily("object")
        => /\ io.parsed.ok <=> RefObjectEnd(io.text, 1) # 0
           /\ io.parsed.ok => (io.parsed.pos = RefObjectEnd(io.text, 1) /\ Kind(obj) = "JSONMap")
           /\ io.text \in {Txt(<<"{", "1", ":", "1", "}">>), Txt(<<"{", "\"", "\"", "1", "}">>),
                           Txt(<<"{", "\"", "\"", ":", "}">>),
                           Txt(<<"{", "\"", "\"", ":", "1", ":", "}">>),
                           Txt(<<"{", "\"", "\"", ":", "1", ",", "}">>)}
                 => ~io.parsed.ok

\* the text {"":1,"":{}} with two members has been accepted, the second
\* member's value being an object
C16_Witness ==
    /\ ParsedFamily("object")
    /\ io.text = Txt(<<"{", "\"", "\"", ":", "1", ",", "\"", "\"", ":", "{", "}", "}">>)
    /\ io.parsed.ok
    /\ obj = JMap(<<[key |-> <<>>, value |-> DefaultObject]>>)

EmptyInput == Throw("Cannot parse empty file or file containing only whitespace")

\* C17: parsing a source that is empty, that holds only whitespace, or that
\* cannot be opened fails with the empty-input error, which is none of the
\* errors raised for malformed text, and returns no value.
C17_EmptyInputError ==
    ParsedFamily("empty")
        => /\ io.parsed = EmptyInput
           /\ io.parsed # ExpectedEOF
           /\ io.parsed # Throw("Error while parsing object, unexpected next character")
           /\ obj = DefaultObject

\* a file that cannot be opened has been parsed, with the empty-input error
C17_Witness ==
    /\ ParsedFamily("empty")
    /\ io.src = "nofile"
    /\ io.parsed = EmptyInput

(***************************************************************************)
(* Keyed access to a key the map does not hold.                            *)
(***************************************************************************)
\* the key is not among the entries of the map at path
AbsentKey(path, key) ==
    /\ Kind(GetAt(obj, path)) = "JSONMap"
    /\ MapFind(Val(GetAt(obj, path)), key) = 0

\* C18: the mutable subscript with a key the map does not hold creates an
\* entry for the key that holds an empty Object: the size of the map grows by
\* one, the returned value is an empty Object of size 0, and every entry the
\* map held before is still there with its value; the read-only subscript with
\* such a key fails and leaves the whole object as it was.
C18_AbsentKeyAccess ==
    [][\A path \in Paths(obj), key \in Keys :
          /\ (/\ last'.op = "operator[](key)"
              /\ AbsentKey(path, key)
              /\ CallKey(path, key))
                => LET before == GetAt(obj, path)
                       after == GetAt(obj', path)
                   IN /\ Kind(after) = "JSONMap"
                      /\ MapFind(Val(after), key) # 0
                      /\ Val(after)[MapFind(Val(after), key)].value = DefaultObject
                      /\ size(after).ret = size(before).ret + 1
                      /\ last'.res = Ok(<<"operator[](key)", DefaultObject>>)
                      /\ size(last'.res.val[2]).ret = 0
                      /\ \A i \in 1..Len(Val(before)) :
                            /\ MapFind(Val(after), Val(before)[i].key) # 0
                            /\ Val(after)[MapFind(Val(after), Val(before)[i].key)].value
                                  = Val(before)[i].value
                      /\ obj' = SetAt(obj, path, after)
          /\ (/\ last'.op = "operator[](key) const"
              /\ AbsentKey(path, key)
              /\ CallKeyConst(path, key))
                => /\ ~last'.res.ok
                   /\ obj' = obj]_vars

\* C18 happens: the mutable subscript was called with the key "b" on a map
\* that held only "a", and the map now holds an empty Object under "b"
C18_Witness ==
    /\ last.op = "operator[](key)"
    /\ last.kind = "JSONMap"
    /\ last.res = Ok(<<"operator[](key)", DefaultObject>>)
    /\ obj = JMap(<<[key |-> Txt(<<"a">>), value |-> JInt(IntOf(1))],
                    [key |-> Txt(<<"b">>), value |-> DefaultObject]>>)

(***************************************************************************)
(* Two objects that are assigned the same pairs in two orders.             *)
(***************************************************************************)
\* the keys b, a, B, ab and the byte 0x80
OrderKeys == {Txt(<<"b">>), Txt(<<"a">>), Txt(<<"B">>), Txt(<<"a", "b">>), <<128>>}

\* the value assigned under each key
OrderValue(key) ==
    CASE key = Txt(<<"b">>) -> JInt(IntOf(1))
      [] key = Txt(<<"a">>) -> JString(Txt(<<"x">>))
      [] key = Txt(<<"B">>) -> JBool(TRUE)
      [] key = Txt(<<"a", "b">>) -> JArray(<<JNull>>)
      [] OTHER -> DefaultObject

\* the sequences of distinct keys
KeyOrders ==
    {l \in SeqsOf(OrderKeys, 1, MaxLen + 1) :
        \A i, j \in 1..Len(l) : i # j => l[i] # l[j]}

\* two orders of the same keys
OrderPairs ==
    UNION {{<<l, p>> : p \in {q \in [1..Len(l) -> OrderKeys] :
                                 {q[i] : i \in 1..Len(q)} = {l[i] : i \in 1..Len(l)}}} :
           l \in KeyOrders}

InitOrder ==
    /\ obj = DefaultObject
    /\ last = NoCall
    /\ io = NoIO
    /\ \E lp \in OrderPairs :
          cmp = [op |-> "order", first |-> lp[1], second |-> lp[2],
                 left |-> DefaultObject, right |-> DefaultObject, res |-> NotRun]

\* left[key] = value, with the next key of the first order
AssignLeft ==
    /\ Len(Val(cmp.left)) < Len(cmp.first)
    /\ LET key == cmp.first[Len(Val(cmp.left)) + 1]
       IN cmp' = [cmp EXCEPT !.left = KeyAssign(cmp.left, key, OrderValue(key)).obj]
    /\ UNCHANGED <<obj, last, io>>

\* right[key] = value, with the next key of the second order
AssignRight ==
    /\ Len(Val(cmp.right)) < Len(cmp.second)
    /\ LET key == cmp.second[Len(Val(cmp.right)) + 1]
       IN cmp' = [cmp EXCEPT !.right = KeyAssign(cmp.right, key, OrderValue(key)).obj]
    /\ UNCHANGED <<obj, last, io>>

\* left == right, left != right, and both objects dumped compact and indented
CompareAndDump ==
    /\ Len(Val(cmp.left)) = Len(cmp.first)
    /\ Len(Val(cmp.right)) = Len(cmp.second)
    /\ ~cmp.res.ok
    /\ \E indentString \in IndentStrings :
          cmp' = [cmp EXCEPT !.res =
                     [ok |-> TRUE,
                      equal |-> ObjectEq(cmp.left, cmp.right),
                      notEqual |-> ObjectNotEq(cmp.left, cmp.right),
                      compact |-> <<dumpToString(cmp.left), dumpToString(cmp.right)>>,
                      pretty |-> <<dumpToPrettyString(cmp.left, indentString),
                                   dumpToPrettyString(cmp.right, indentString)>>]]
    /\ UNCHANGED <<obj, last, io>>

NextOrder ==
    \/ AssignLeft
    \/ AssignRight
    \/ CompareAndDump

SpecOrder == InitOrder /\ [][NextOrder]_vars

\* the first position at which pat occurs in text, 0 when it does not occur
FindSub(text, pat) ==
    LET hits == {i \in 1..(Len(text) - Len(pat) + 1) :
                    SubSeq(text, i, i + Len(pat) - 1) = pat}
    IN IF hits = {} THEN 0 ELSE CHOOSE i \in hits : \A j \in hits : i <= j

\* byte-wise order of two keys: at the first position where they differ the
\* smaller byte (0..255) decides, and a proper prefix comes first
ByteWiseBefore(a, b) ==
    \/ \E n \in 1..Len(a) :
          /\ n <= Len(b)
          /\ SubSeq(a, 1, n - 1) = SubSeq(b, 1, n - 1)
          /\ a[n] < b[n]
    \/ Len(a) < Len(b) /\ a = SubSeq(b, 1, Len(a))

\* every key occurs, quoted, in the text, and a key that is byte-wise before
\* another occurs before it
KeysAscendIn(text, keys) ==
    /\ \A k \in keys : FindSub(text, <<34>> \o k \o <<34>>) # 0
    /\ \A k1, k2 \in keys :
          ByteWiseBefore(k1, k2)
             => FindSub(text, <<34>> \o k1 \o <<34>>) < FindSub(text, <<34>> \o k2 \o <<34>>)

\* C19: two objects that were assigned the same key/value pairs in different
\* orders are equal, their compact texts are the same text and their indented
\* texts are the same text, and in these texts the keys appear in ascending
\* byte-wise order.
C19_InsertionOrderIndependent ==
    (cmp.op = "order" /\ cmp.res.ok)
        => LET keys == {cmp.first[i] : i \in 1..Len(cmp.first)}
           IN /\ cmp.res.equal
              /\ ~cmp.res.notEqual
              /\ cmp.res.compact[1] = cmp.res.compact[2]
              /\ cmp.res.pretty[1] = cmp.res.pretty[2]
              /\ KeysAscendIn(cmp.res.compact[1], keys)
              /\ KeysAscendIn(cmp.res.pretty[1], keys)

\* C19 happens: the keys b, 0x80, B were assigned to one object and the keys
\* B, b, 0x80 to the other, and both were compared and dumped
C19_Witness ==
    /\ cmp.op = "order"
    /\ cmp.first = <<Txt(<<"b">>), <<128>>, Txt(<<"B">>)>>
    /\ cmp.second = <<Txt(<<"B">>), Txt(<<"b">>), <<128>>>>
    /\ cmp.res.ok
    /\ cmp.res.equal
    /\ cmp.res.compact[1] =
          Txt(<<"{", "\"", "B", "\"", ":", "t", "r", "u", "e", ",",
                "\"", "b", "\"", ":", "1", ",", "\"">>) \o <<128>> \o Txt(<<"\"", ":", "{", "}", "}">>)

(***************************************************************************)
(* The ordering operators of JSONObject, applied to a pair of objects.     *)
(***************************************************************************)
\* the operands: strings, numbers of both kinds, booleans, null, arrays and maps
CmpObjects ==
    {JString(<<>>), JString(Txt(<<"a">>)), JString(Txt(<<"b">>)),
     JInt(IntOf(1)), JInt(IntOf(2)), JFloat(Half(2)), JFloat(Half(3)),
     JBool(TRUE), JBool(FALSE), JNull,
     JArray(<<>>), JArray(<<JInt(IntOf(1))>>),
     DefaultObject, JMap(<<[key |-> Txt(<<"a">>), value |-> JInt(IntOf(1))]>>)}

InitObjCmp ==
    /\ obj = DefaultObject
    /\ last = NoCall
    /\ io = NoIO
    /\ cmp \in [lhs : CmpObjects, rhs : CmpObjects, op : {"none"}, result : {NotRun}]

\* lhs < rhs
ObjCmpLess == Compare("<", ObjectLess(cmp.lhs, cmp.rhs))

\* lhs <= rhs
ObjCmpLessEq == Compare("<=", ObjectLessEq(cmp.lhs, cmp.rhs))

\* lhs > rhs
ObjCmpGreater == Compare(">", ObjectGreater(cmp.lhs, cmp.rhs))

\* lhs >= rhs
ObjCmpGreaterEq == Compare(">=", ObjectGreaterEq(cmp.lhs, cmp.rhs))

NextObjCmp ==
    \/ ObjCmpLess
    \/ ObjCmpLessEq
    \/ ObjCmpGreater
    \/ ObjCmpGreaterEq

SpecObjCmp == InitObjCmp /\ [][NextObjCmp]_vars

\* both operands hold a string, or both hold a number
Orderable(lhs, rhs) ==
    \/ Kind(lhs) = "JSONString" /\ Kind(rhs) = "JSONString"
    \/ Kind(lhs) = "JSONNumber" /\ Kind(rhs) = "JSONNumber"

\* C20: each of <, <=, > and >= on two objects returns a result exactly when
\* both hold a string or both hold a number; for every other pair of kinds it
\* throws a JSONException, also when the two operands are equal.
C20_OrderingKindGuard ==
    cmp.op \in {"<", "<=", ">", ">="}
        => /\ cmp.result.ok <=> Orderable(cmp.lhs, cmp.rhs)
           /\ cmp.result.ok => cmp.result.val \in BOOLEAN
           /\ ~cmp.result.ok => cmp.result.exc = "JSONException"

\* C20 happens: an array was compared with itself under <= and the comparison
\* threw
C20_Witness ==
    /\ cmp.op = "<="
    /\ cmp.lhs = JArray(<<JInt(IntOf(1))>>)
    /\ cmp.rhs = cmp.lhs
    /\ ~cmp.result.ok
    /\ cmp.result.exc = "JSONException"

\* C22: every operation on an object that fails reports the failure as a
\* JSONException carrying a message, never as another kind of exception.
C22_SingleErrorKind ==
    (~last.res.ok /\ last.res # Undefined)
        => /\ last.res.exc = "JSONException"
           /\ last.res.msg # ""

(***************************************************************************)
(* Arrays and maps against a reference sequence and a reference map.       *)
(***************************************************************************)
\* the object at path holds an array
ArrayAt(path) == Kind(GetAt(obj, path)) = "JSONArray"

OutOfRange == Throw("JSONArray operator[] index out of range")

\* the reference sequence after the call that has just been made on the array
\* at path, where ref is the reference sequence before it
C24_Step(path, ref) ==
    LET after == GetAt(obj', path)
    IN /\ (last'.op = "append" /\ \E arg \in Elems : CallAppend(path, arg))
             => /\ Kind(after) = "JSONArray"
                /\ Len(Val(after)) = Len(ref) + 1
                /\ SubSeq(Val(after), 1, Len(ref)) = ref
                /\ CallAppend(path, Val(after)[Len(ref) + 1])
                /\ size(after).ret = Len(ref) + 1
       /\ (last'.op = "pop" /\ ref # <<>> /\ CallPop(path))
             => /\ after = JArray(SubSeq(ref, 1, Len(ref) - 1))
                /\ size(after).ret = Len(ref) - 1
       /\ (last'.op = "clear" /\ CallClear(path))
             => /\ after = JArray(<<>>)
                /\ size(after).ret = 0
                /\ clear(after) = Done(after, "void")
       /\ (last'.op = "size" /\ CallSize(path))
             => /\ last'.res = Ok(<<"size", Len(ref)>>)
                /\ obj' = obj
       /\ \A index \in Indexes :
             /\ (last'.op = "operator[](size_t)" /\ CallIndex(path, index))
                   => /\ last'.res.ok <=> index < Len(ref)
                      /\ last'.res.ok => last'.res.val[2] = ref[index + 1]
                      /\ ~last'.res.ok => last'.res = OutOfRange
                      /\ obj' = obj
             /\ (last'.op = "operator[](size_t) const" /\ CallIndexConst(path, index))
                   => /\ last'.res.ok <=> index < Len(ref)
                      /\ last'.res.ok => last'.res.val[2] = ref[index + 1]
                      /\ ~last'.res.ok => last'.res = OutOfRange
                      /\ obj' = obj
             /\ (last'.op = "operator[](size_t) =" /\ \E arg \in ElemAtoms : CallIndexAssign(path, index, arg))
                   => /\ last'.res.ok <=> index < Len(ref)
                      /\ last'.res.ok
                            => /\ Kind(after) = "JSONArray"
                               /\ Len(Val(after)) = Len(ref)
                               /\ \A i \in 1..Len(ref) : i # index + 1 => Val(after)[i] = ref[i]
                               /\ CallIndexAssign(path, index, Val(after)[index + 1])
                      /\ ~last'.res.ok => (last'.res = OutOfRange /\ obj' = obj)

\* C24: an array follows its reference sequence: append adds the argument at
\* the end, pop on a non-empty array removes only the last element, clear
\* empties it and clearing again changes nothing, size is the length, and
\* indexed access (mutable, const, assigning) succeeds exactly when the index
\* is below the size, reaching the element at that position, and otherwise
\* throws the out-of-range JSONException and leaves the array unchanged (in an
\* object no array of which has been popped while empty and that has not been
\* written over).
C24_ArrayReferenceSequence ==
    [][Intact(obj) => \A path \in Paths(obj) :
                         ArrayAt(path) => C24_Step(path, Val(GetAt(obj, path)))]_vars

\* C24 happens: pop was called on an array of two elements and left the first
C24_Witness ==
    /\ last.op = "pop"
    /\ last.kind = "JSONArray"
    /\ last.res.ok
    /\ obj = JArray(<<JString(Txt(<<"a">>))>>)

\* the object at path holds a map
MapAt(path) == Kind(GetAt(obj, path)) = "JSONMap"

\* the reference finite map of a JSONMap: its keys, and the value under a key
KeysOf(o) == {Val(o)[i].key : i \in 1..Len(Val(o))}

ValueOf(o, key) == Val(o)[CHOOSE i \in 1..Len(Val(o)) : Val(o)[i].key = key].value

\* size() counts each key once
CountsKeysOnce(o) == size(o).ret = Cardinality(KeysOf(o))

\* the reference map after the call that has just been made on the map at
\* path, where before is the map before it
C25_Step(path, before) ==
    LET after == GetAt(obj', path)
    IN /\ \A key \in Keys :
             /\ (last'.op = "operator[](key) =" /\ \E arg \in ElemAtoms : CallKeyAssign(path, key, arg))
                   => /\ Kind(after) = "JSONMap"
                      /\ KeysOf(after) = KeysOf(before) \cup {key}
                      /\ CallKeyAssign(path, key, ValueOf(after, key))
                      /\ \A k \in KeysOf(before) \ {key} : ValueOf(after, k) = ValueOf(before, k)
                      /\ CountsKeysOnce(after)
             /\ (last'.op = "removeField" /\ CallRemoveField(path, key))
                   => /\ Kind(after) = "JSONMap"
                      /\ KeysOf(after) = KeysOf(before) \ {key}
                      /\ \A k \in KeysOf(after) : ValueOf(after, k) = ValueOf(before, k)
                      /\ CountsKeysOnce(after)
                      /\ key \notin KeysOf(before) => obj' = obj
       /\ (last'.op = "clear" /\ CallClear(path))
             => /\ Kind(after) = "JSONMap"
                /\ KeysOf(after) = {}
                /\ size(after).ret = 0
       /\ (last'.op = "size" /\ CallSize(path))
             => /\ last'.res = Ok(<<"size", Cardinality(KeysOf(before))>>)
                /\ obj' = obj

\* C25: a map follows its reference finite map: keyed assignment puts the
\* value under the key (replacing the value the key had) and leaves the other
\* keys with their values, removeField of a present key removes that entry
\* only, removeField of an absent key changes nothing, clear leaves no entry,
\* and size is the number of distinct keys present (in an object no array of
\* which has been popped while empty and that has not been written over).
C25_ObjectReferenceMap ==
    [][Intact(obj) => \A path \in Paths(obj) :
                         MapAt(path) => C25_Step(path, GetAt(obj, path))]_vars

\* C25 happens: removeField was called on a map and the map now holds the key
\* "b" only
C25_Witness ==
    /\ last.op = "removeField"
    /\ last.kind = "JSONMap"
    /\ last.res.ok
    /\ obj = JMap(<<[key |-> Txt(<<"b">>), value |-> JString(Txt(<<"a">>))]>>)

(***************************************************************************)
(* A number lexeme is parsed and the number is asked for its value.        *)
(***************************************************************************)
\* a faulty getValue: the value is handed out whichever alternative is held
getValueOfAny(n, T) == Ok(n.num)

\* JSONNumber::getValue<T>: std::get<T> on the variant
getValue(n, T) ==
    IF n.alt = T THEN Ok(n.num) ELSE ThrowStd("std::bad_variant_access")

InitNumber ==
    /\ obj = DefaultObject
    /\ last = NoCall
    /\ cmp = NoCmp
    /\ io \in NumberSources

\* obj = internal::parseNumber(stream)
ParseNumberText ==
    /\ io.family = "number"
    /\ "parse" \notin io.done
    /\ LET r == parseNumber(StringStream(io.text))
       IN /\ obj' = IF r.ok THEN JNumber(r.val) ELSE obj
          /\ io' = [io EXCEPT !.done = @ \cup {"parse"}, !.parsed = Outcome(r)]
    /\ UNCHANGED <<last, cmp>>

\* the parsed number is there to be asked
HaveNumber == "parse" \in io.done /\ io.parsed.ok /\ Kind(obj) = "JSONNumber"

\* number.getValue<JSONInteger>()
GetInteger ==
    /\ HaveNumber
    /\ LET r == getValue(Val(obj), "JSONInteger")
       IN last' = Call("getValue<JSONInteger>", <<>>, "none",
                       IF r.ok THEN Done(obj, r.val) ELSE r)
    /\ UNCHANGED <<obj, io, cmp>>

\* number.getValue<JSONFloating>()
GetFloating ==
    /\ HaveNumber
    /\ LET r == getValue(Val(obj), "JSONFloating")
       IN last' = Call("getValue<JSONFloating>", <<>>, "none",
                       IF r.ok THEN Done(obj, r.val) ELSE r)
    /\ UNCHANGED <<obj, io, cmp>>

NextNumber ==
    \/ ParseNumberText
    \/ GetInteger
    \/ GetFloating

SpecNumber == InitNumber /\ [][NextNumber]_vars

\* the lexeme holds a '.', an 'e' or an 'E'
HasFloatMark(text) == \E i \in 1..Len(text) : text[i] \in {46, 101, 69}

\* C26: a number lexeme that the parser accepts gives a number of the floating
\* kind exactly when the lexeme holds '.', 'e' or 'E', and of the integer kind
\* otherwise; getValue<JSONInteger> returns the value exactly on the integer
\* kind and getValue<JSONFloating> exactly on the floating kind, and the other
\* request fails.
C26_NumberKind ==
    HaveNumber
        => /\ Val(obj).alt = (IF HasFloatMark(io.text) THEN "JSONFloating" ELSE "JSONInteger")
           /\ last.op = "getValue<JSONInteger>"
                 => /\ last.res.ok <=> ~HasFloatMark(io.text)
                    /\ last.res.ok => last.res.val[2] = Val(obj).num
           /\ last.op = "getValue<JSONFloating>"
                 => /\ last.res.ok <=> HasFloatMark(io.text)
                    /\ last.res.ok => last.res.val[2] = Val(obj).num

\* C26 happens: -2.5e1 was parsed to a number of the floating kind, and the
\* request for its integer value failed
C26_Witness ==
    /\ HaveNumber
    /\ io.text = Txt(<<"-", "2", ".", "5", "e", "1">>)
    /\ Val(obj).alt = "JSONFloating"
    /\ last.op = "getValue<JSONInteger>"
    /\ ~last.res.ok

(***************************************************************************)
(* The layout of the indented text.                                        *)
(***************************************************************************)
\* n copies of the indent string
RECURSIVE Copies(_, _)
Copies(s, n) == IF n = 0 THEN <<>> ELSE s \o Copies(s, n - 1)

\* the lines of the elements of a container at depth d, each prefixed by d + 1
\* copies of the indent string, a comma after each but the last
RECURSIVE LayoutOf(_, _, _), LayoutLines(_, _, _, _, _)
LayoutLines(kind, items, i, d, s) ==
    LET item == IF kind = "JSONArray" THEN LayoutOf(items[i], d + 1, s)
                ELSE <<34>> \o items[i].key \o <<34, 32, 58, 32>>
                     \o LayoutOf(items[i].value, d + 1, s)
    IN Copies(s, d + 1) \o item
       \o (IF i = Len(items) THEN <<>> ELSE <<44, 10>> \o LayoutLines(kind, items, i + 1, d, s))

\* the indented text of v at depth d: an empty container on one line, a
\* non-empty one with its elements on lines of their own and its closing
\* bracket on a line of its own prefixed by d copies of the indent string
LayoutOf(v, d, s) ==
    IF Kind(v) \notin {"JSONArray", "JSONMap"} THEN toString(v)
    ELSE IF Val(v) = <<>> THEN (IF Kind(v) = "JSONArray" THEN <<91, 93>> ELSE <<123, 125>>)
    ELSE (IF Kind(v) = "JSONArray" THEN <<91>> ELSE <<123>>) \o <<10>>
         \o LayoutLines(Kind(v), Val(v), 1, d, s) \o <<10>>
         \o Copies(s, d) \o (IF Kind(v) = "JSONArray" THEN <<93>> ELSE <<125>>)

\* C27: dumpToPrettyString(v, s) lays the text out by depth: each element or
\* key/value pair of a non-empty container at depth d is on a new line behind
\* d + 1 copies of s, the closing bracket is on its own line behind d copies
\* of s, no comma follows the last element, an empty container is [] or {} on
\* one line; and serializing any sub-tree leaves the indentation accumulator
\* with the value it had before.
C27_IndentationLayout ==
    "pretty" \in io.done
        => /\ io.pretty = LayoutOf(obj, 0, io.indent)
           /\ \A path \in Paths(obj) :
                 \A cur \in {<<>>, io.indent, io.indent \o io.indent} :
                    toIndentedString(GetAt(obj, path), cur, io.indent).cur = cur

\* C27 happens: [[1],[2,[]],{"a":[3]}], an array of sibling containers, has
\* been dumped with the indent string of two spaces
C27_Witness ==
    /\ "pretty" \in io.done
    /\ io.indent = Txt(<<" ", " ">>)
    /\ obj = JArray(<<JArray(<<JInt(IntOf(1))>>),
                      JArray(<<JInt(IntOf(2)), JArray(<<>>)>>),
                      JMap(<<[key |-> Txt(<<"a">>), value |-> JArray(<<JInt(IntOf(3))>>)]>>)>>)
    /\ io.pretty = Txt(<<"[", "\n",
                         " ", " ", "[", "\n", " ", " ", " ", " ", "1", "\n", " ", " ", "]", ",", "\n",
                         " ", " ", "[", "\n", " ", " ", " ", " ", "2", ",", "\n",
                                              " ", " ", " ", " ", "[", "]", "\n", " ", " ", "]", ",", "\n",
                         " ", " ", "{", "\n", " ", " ", " ", " ", "\"", "a", "\"", " ", ":", " ", "[", "\n",
                                              " ", " ", " ", " ", " ", " ", "3", "\n",
                                              " ", " ", " ", " ", "]", "\n", " ", " ", "}", "\n",
                         "]">>)

\* C28: whitespace between tokens is space, tab, carriage return and line
\* feed: with any run of these before or after the top-level value or next to
\* a bracket, a brace, a comma or a colon the text parses to the value of the
\* text without them, and with a form feed or a vertical tab there the parse
\* fails.
C28_WhitespaceSet ==
    ParsedFamily("ws")
        => IF \A i \in 1..Len(io.about.filler) : io.about.filler[i] \in {32, 9, 13, 10}
           THEN /\ io.parsed.ok
                /\ parseFromString(io.about.doc).ok
                /\ obj = parseFromString(io.about.doc).val
           ELSE ~io.parsed.ok /\ obj = DefaultObject

\* C28 happens: { "a":1,"b":[]} with a tab and a line feed after the colon of
\* "b" has been parsed to the value of the text without them
C28_Witness ==
    /\ ParsedFamily("ws")
    /\ io.text = Txt(<<"{", "\"", "a", "\"", ":", "1", ",", "\"", "b", "\"", ":", "\t", "\n", "[", "]", "}">>)
    /\ io.parsed.ok
    /\ obj = JMap(<<[key |-> Txt(<<"a">>), value |-> JInt(IntOf(1))],
                    [key |-> Txt(<<"b">>), value |-> JArray(<<>>)]>>)

\* the mathematical value of an integer lexeme: its sign and its decimal
\* digits without leading zeros, zero having no sign
LexemeValue(text) ==
    LET neg == text[1] = 45
        ds == [i \in 1..(Len(text) - (IF neg THEN 1 ELSE 0)) |->
                  text[i + (IF neg THEN 1 ELSE 0)] - 48]
        nz == {i \in 1..Len(ds) : ds[i] # 0}
    IN IF nz = {} THEN [neg |-> FALSE, digits |-> <<0>>]
       ELSE [neg |-> neg,
             digits |-> SubSeq(ds, CHOOSE i \in nz : \A j \in nz : i <= j, Len(ds))]

\* C29: an integer lexeme that the parser accepts gives the integer-kind
\* number whose value is the value of the decimal lexeme, also when that value
\* is outside the signed 64-bit range.
C29_IntegerExact ==
    (/\ io.family \in {"bigint", "number"}
     /\ "parse" \in io.done
     /\ io.parsed.ok
     /\ ~HasFloatMark(io.text))
        => obj = JInt(LexemeValue(io.text))

UnexpectedCharacter == Throw("Error while parsing object, unexpected next character")

\* C30: a byte that is in the input is never taken for the end of the stream:
\* a text with the byte 0xFF where the top level looks for the next token is
\* neither reported as empty input nor accepted as ending there; it is
\* rejected as an unexpected character or as content after the value.
C30_EndOfStreamIsGenuine ==
    ParsedFamily("eof")
        => /\ io.parsed = (IF io.about = <<>> THEN UnexpectedCharacter ELSE ExpectedEOF)
           /\ obj = DefaultObject

(***************************************************************************)
(* parseFromString on its own, run to its end on every text.               *)
(***************************************************************************)
InitTerm ==
    /\ InitParse
    /\ io.family \in TopLevel
    /\ io.src = "text"

NextTerm == ParseTopLevel

\* parseFromString is called on the text and runs on: weak fairness of the
\* call, which is enabled as long as the text has not been parsed
SpecTerm ==
    InitTerm /\ [][NextTerm]_vars /\ ([]<>("parse" \in io.done) \/ []<><<NextTerm>>_vars)

\* parseFromString has come back: with one value, or with an exception and no
\* value; a document cut short inside a string, an array or an object came
\* back with an exception
ParseCameBack ==
    /\ "parse" \in io.done
    /\ \/ io.parsed = Ok("void") /\ Kind(obj) \in {"JSONString", "JSONNumber", "JSONBool",
                                                  "JSONNull", "JSONArray", "JSONMap"}
       \/ ~io.parsed.ok /\ io.parsed.exc = "JSONException" /\ obj = DefaultObject
    /\ io.family = "cut" => (io.parsed.ok <=> io.text = io.about.doc)

\* C23: parseFromString comes back on every text, with exactly one value or
\* with an error and nothing built; on a text that ends inside an unclosed
\* string, array or object it comes back with an error.
C23_ParseTerminates == <>ParseCameBack

\* C23 happens: the text [1,[" that ends inside a string inside two arrays has
\* been parsed, with an error and no value
C23_Witness ==
    /\ ParsedFamily("cut")
    /\ io.text = Txt(<<"[", "1", ",", "[", "\"">>)
    /\ io.parsed = Throw("Error while parsing string, unexpected end of stream")
    /\ obj = DefaultObject

(***************************************************************************)
(* Two objects, the second a copy of the first or of a sub-tree of it.     *)
(***************************************************************************)
\* an object that has not been constructed yet
Unborn == <<"unborn", "unborn">>

\* the trees copies are taken from
CopyTrees ==
    {JArray(<<JArray(<<JInt(IntOf(1))>>)>>),
     JArray(<<JInt(IntOf(1)), JString(Txt(<<"a">>))>>),
     JMap(<<[key |-> Txt(<<"a">>),
             value |-> JMap(<<[key |-> Txt(<<"b">>), value |-> JInt(IntOf(1))]>>)]>>),
     JMap(<<[key |-> Txt(<<"a">>), value |-> JArray(<<>>)],
            [key |-> Txt(<<"b">>), value |-> JInt(IntOf(1))]>>)}

InitCopy ==
    /\ obj = DefaultObject
    /\ last = NoCall
    /\ io = NoIO
    /\ cmp \in [op : {"copy"}, a : CopyTrees, b : {Unborn, JArray(<<JInt(IntOf(2))>>)},
                snapA : {Unborn}, snapB : {Unborn}, touched : {"none"}]

\* the object a or the object b
Held(who) == IF who = "a" THEN cmp.a ELSE cmp.b

\* a faulty store: the two objects share their value
WriteShared(c, who, value) == [c EXCEPT !.a = value, !.b = value]

\* the object named who holds value from now on; each JSONObject owns its
\* mValue, so the other object keeps its own
Write(c, who, value) ==
    IF who = "a" THEN [c EXCEPT !.a = value] ELSE [c EXCEPT !.b = value]

\* JSONObject b = a[path...]: copy construction
CopyConstruct(path) ==
    /\ cmp.b = Unborn
    /\ cmp' = [Write(cmp, "b", GetAt(cmp.a, path)) EXCEPT
                  !.snapA = cmp.a, !.snapB = GetAt(cmp.a, path)]
    /\ UNCHANGED <<obj, last, io>>

\* b = a[path...]: copy assignment to an object that holds something else
CopyAssign(path) ==
    /\ cmp.b # Unborn
    /\ cmp.snapB = Unborn
    /\ cmp' = [Write(cmp, "b", GetAt(cmp.a, path)) EXCEPT
                  !.snapA = cmp.a, !.snapB = GetAt(cmp.a, path)]
    /\ UNCHANGED <<obj, last, io>>

\* the call name with the outcome r made on the sub-object at path of one of
\* the two objects, after the copy; after undefined behaviour (pop on an
\* empty array, a call on an array that was popped while empty) the process
\* has died, or the call has returned with the array at path wrecked and,
\* when it stores, with either object perhaps written over
Mutate(who, name, path, r) ==
    /\ cmp.snapB # Unborn
    /\ cmp.a # Crashed
    /\ cmp.touched \in {"none", who}
    /\ IF ~r.ok /\ r.exc = Undefined.exc
       THEN /\ \A x \in Wrecked(name, Held(who), path) : Fits(x)
            /\ \/ cmp' = [cmp EXCEPT !.touched = who, !.a = Crashed, !.b = Crashed]
               \/ \E w \in Wrecked(name, Held(who), path) :
                     \E x \in Stray(name, w),
                        y \in Stray(name, Held(IF who = "a" THEN "b" ELSE "a")) :
                        cmp' = [Write(Write(cmp, who, x), IF who = "a" THEN "b" ELSE "a", y)
                                   EXCEPT !.touched = who]
       ELSE LET new == IF r.ok THEN SetAt(Held(who), path, r.obj) ELSE Held(who)
            IN /\ Fits(new)
               /\ cmp' = [Write(cmp, who, new) EXCEPT !.touched = who]
    /\ UNCHANGED <<obj, last, io>>

\* the sub-object at path of the object a or b
Target(who, path) == GetAt(Held(who), path)

MutAppend(who, path, arg) ==
    Mutate(who, "append", path, Destroying(Target(who, path), append(Target(who, path), arg)))

MutPop(who, path) ==
    Mutate(who, "pop", path, Destroying(Target(who, path), pop(Target(who, path))))

MutClear(who, path) ==
    Mutate(who, "clear", path, Destroying(Target(who, path), clear(Target(who, path))))

MutRemoveField(who, path, key) ==
    Mutate(who, "removeField", path,
           Destroying(Target(who, path), removeField(Target(who, path), key)))

MutIndexAssign(who, path, index, arg) ==
    Mutate(who, "operator[](size_t) =", path,
           Destroying(Target(who, path), IndexAssign(Target(who, path), index, arg)))

MutKeyAssign(who, path, key, arg) ==
    Mutate(who, "operator[](key) =", path,
           Destroying(Target(who, path), KeyAssign(Target(who, path), key, arg)))

NextCopy ==
    \/ \E path \in Paths(cmp.a) : CopyConstruct(path)
    \/ \E path \in Paths(cmp.a) : CopyAssign(path)
    \/ \E who \in {"a", "b"} : \E path \in Paths(Held(who)), arg \in Elems : MutAppend(who, path, arg)
    \/ \E who \in {"a", "b"} : \E path \in Paths(Held(who)) : MutPop(who, path)
    \/ \E who \in {"a", "b"} : \E path \in Paths(Held(who)) : MutClear(who, path)
    \/ \E who \in {"a", "b"} : \E path \in Paths(Held(who)), key \in Keys :
          MutRemoveField(who, path, key)
    \/ \E who \in {"a", "b"} : \E path \in Paths(Held(who)), index \in Indexes, arg \in ElemAtoms :
          MutIndexAssign(who, path, index, arg)
    \/ \E who \in {"a", "b"} : \E path \in Paths(Held(who)), key \in Keys, arg \in ElemAtoms :
          MutKeyAssign(who, path, key, arg)

SpecCopy == InitCopy /\ [][NextCopy]_vars

\* C21: after b has been copied from a or from a sub-tree of a, by
\* construction or by assignment, whatever append, pop (on a non-empty
\* array), clear, removeField, indexed and keyed assignments are made on one
\* of the two, the other is equal to what it was when the copy was taken (in
\* objects no array of which has been popped while empty and that have not
\* been written over).
C21_CopiesAreDeep ==
    (cmp.op = "copy" /\ cmp.snapB # Unborn /\ Intact(cmp.a) /\ Intact(cmp.b))
        => /\ cmp.touched \in {"none", "a"}
                 => (cmp.b = cmp.snapB /\ ObjectEq(cmp.b, cmp.snapB))
           /\ cmp.touched \in {"none", "b"}
                 => (cmp.a = cmp.snapA /\ ObjectEq(cmp.a, cmp.snapA))

\* C21 happens: b was copied from the inner array of [[1]], the inner array of
\* a was changed to ["a"] afterwards, and b is [1]
C21_Witness ==
    /\ cmp.op = "copy"
    /\ cmp.touched = "a"
    /\ cmp.snapA = JArray(<<JArray(<<JInt(IntOf(1))>>)>>)
    /\ cmp.a = JArray(<<JArray(<<JString(Txt(<<"a">>))>>)>>)
    /\ cmp.snapB = JArray(<<JInt(IntOf(1))>>)
    /\ cmp.b = JArray(<<JInt(IntOf(1))>>)
=============================================================================
